---------------------------- MODULE Spec2Model ----------------------------
(***************************************************************************)
(* A model of the browser side of the real-time session core:              *)
(*   - MultimodalAgentClient (src/frontend/lib/websocket-client.js)        *)
(*   - ChatInterface         (src/frontend/components/ChatInput.js)        *)
(* together with the browser's WebSocket objects and timers.               *)
(***************************************************************************)
EXTENDS Integers, Sequences, FiniteSets, Bags, TLC

(***************************************************************************)
(* Bounds of the model.                                                    *)
(***************************************************************************)
MaxSockets == 2      \* WebSocket objects of one client that are not yet closed
MaxFrames == 2       \* frames the caller sends on one socket
MaxTimers == 1       \* reconnect timers pending at once
MaxUIFrames == 3     \* frames on one socket of a client driven by ChatInterface
MaxMessages == 2     \* entries of the message list
MaxUIReconnects == 1 \* consecutive reconnects, in SpecUI
MaxPending == 1      \* requests of ChatInterface in flight at once, in SpecUI
MaxNanoUI == 1       \* status lines appended, in SpecUI
MaxNano == 14        \* status lines appended, in SpecNano
MaxLoads == 2        \* requests of ChatInterface in flight at once, in SpecHistory
MaxHandlers == 2     \* handlers in one list of the handler registry
MaxCap == 3          \* largest cap of an AgentMemory
MaxAppends == 4      \* entries ever appended to one AgentMemory
MaxPersisted == 4    \* Messages persisted in the chat
MaxTurnNano == 2     \* NanoEvents an agent yields in one turn

(***************************************************************************)
(* Program constants.                                                      *)
(***************************************************************************)
maxReconnectAttempts == 5
reconnectDelay == 1000
NanoCap == 12        \* ChatInput.js, line 486: next.slice(-12)

Null == "null"
NoSock == 0
Tokens == {Null, "tok"}
ChatIds == {"c1", "c2"}
SessionIds == {"s1"}
Signatures == {"agentA"}
Registry == <<"agentA", "agentB">>   \* the Agent Registry, in registration order
TurnSignatures == {Null, "agentA", "agentB", "agentX"}
MessageKinds == {"forA", "forB", "forBoth", "forNone"}
Sockets == 1..MaxSockets
HandlerEvents == {"nano_message", "chat_message"}
FrameAgent == "agentA"           \* data.agent of a nano_message frame
NanoKeys == {FrameAgent, "*"}    \* the keys of nanoMessageHandlers
Agents == {Registry[i] : i \in DOMAIN Registry}
NoTurn == [signature |-> Null, message |-> Null, agent |-> Null, classified |-> FALSE]

VARIABLES
    \* fields of MultimodalAgentClient
    ws,                 \* this.ws: the socket the client holds, or NoSock
    sessionId,
    chatId,
    isAuthenticated,
    isConnecting,
    reconnectAttempts,
    heartbeatInterval,  \* TRUE iff this.heartbeatInterval holds a timer handle
    tokenSent,          \* this._tokenSent
    nextSignature,      \* this._nextSignature
    \* the browser: WebSocket objects and timers
    readyState,         \* per socket: "NONE" before creation, then the readyState
    opened,             \* per socket: the connection was established
    sockToken,          \* per socket: the token its handlers closed over
    wire,               \* per socket: the frames accepted by send(), in order
    authRecv,           \* per socket: an auth_success was delivered on it
    authFailed,         \* per socket: an auth_error was delivered on it
    timers,             \* bag of pending reconnect timeouts
    liveIntervals,      \* number of live heartbeat setInterval timers
    \* state of ChatInterface
    uiPhase,            \* where the effect of lines 342-502 stands: "unmounted",
                        \* "awaiting" (line 387), "ready" (handlers registered),
                        \* "failed" (line 392) or "gone" (after the cleanup)
    awaited,            \* the socket whose connect() promise line 387 awaits
    isConnected,
    uiSessionId,        \* the state sessionId of ChatInterface
    uiChatId,           \* the state chatId of ChatInterface
    isSending,
    isTyping,
    messages,
    nanoStream,
    uploadActive,       \* handleSendMessage is at the await of line 530
    uploadChat,         \* the chatId that call of handleSendMessage closed over
    detailsPending,     \* chat_switched handlers at the await of line 448
    loadsPending,       \* loadChatMessages calls at the await of line 363
    historyPending,     \* auth_success handlers at the await of line 400, each
                        \* with the chat_id of its event
    chats,              \* the chat list: per chat id "absent", or the kind of
                        \* title of its entry
    fallbackTimer,      \* the timeout of lines 490-494 is pending
    \* the server end of each socket
    srvChat,            \* the chat the connection is bound to
    srvRead,            \* the number of frames of the socket handled so far
    turnsInFlight,      \* turn frames sent on the socket and not yet answered
    deleted,            \* the chats the server has deleted
    \* the Agent Router and the Memory Store, for the turns of one chat
    memCap,             \* per agent: the cap of its AgentMemory, 0 before the
                        \* memory is created
    memory,             \* per agent: the entries of its AgentMemory, oldest first
    memSeq,             \* per agent: the number of entries ever appended
    msgCount,           \* the number of Messages persisted in the chat
    turnPhase,          \* "idle", "running", "done" or "failed"
    turn,               \* the turn routed last: signature, message, agent
    outbox,             \* the events of that turn emitted to the client
    nanosYielded,       \* the NanoEvents the agent yielded in that turn
    msgAtStart,         \* msgCount when that turn was routed
    \* the handler registry of MultimodalAgentClient
    eventHandlers,      \* per event: the handlers registered with on(), in order
    nanoMessageHandlers,\* per key: the handlers registered with onNanoMessage()
    invoked,            \* the handlers invoked for the last frame, in order
    dispatched,         \* the event of the last frame, or Null
    \* AuthService and the page that holds it
    authUser,           \* this.user
    authToken,          \* this.token
    storedUser,         \* localStorage item user
    storedToken,        \* localStorage item token
    logoutPending,      \* a call of logout() is at the await of line 80
    logoutDone,         \* a call of logout() has completed, no sign-in since
    reloading,          \* window.location.reload() was called, the page is not
                        \* yet unloaded
    signedOut,          \* the page was reloaded by the sign-out action, no
                        \* sign-in since
    \* history
    sinceOpen,          \* reconnects scheduled since the last successful open
    nanoLog,            \* the entries appended to nanoStream since it was cleared
    nanoSeq,            \* the number of entries ever appended to nanoStream
    switchedTo          \* chat id of the chat_switched or chat_created that
                        \* ChatInterface handled last, if no auth_success since

clientVars == <<ws, sessionId, chatId, isAuthenticated, isConnecting,
                reconnectAttempts, heartbeatInterval, tokenSent, nextSignature>>
browserVars == <<readyState, opened, sockToken, wire, authRecv, authFailed,
                 timers, liveIntervals>>
uiState == <<isConnected, uiSessionId, uiChatId, isSending, isTyping, messages,
             nanoStream, nanoLog, nanoSeq, switchedTo, detailsPending, loadsPending,
             historyPending, chats>>
uiVars == <<uiPhase, awaited, uploadActive, uploadChat, fallbackTimer, uiState>>
routerVars == <<memCap, memory, memSeq, msgCount, turnPhase, turn, outbox,
                nanosYielded, msgAtStart>>
srvVars == <<srvChat, srvRead, turnsInFlight, deleted, routerVars>>
handlerVars == <<eventHandlers, nanoMessageHandlers, invoked, dispatched>>
authVars == <<authUser, authToken, storedUser, storedToken, logoutPending, logoutDone,
              reloading, signedOut>>
pageVars == <<handlerVars, authVars>>
vars == <<clientVars, browserVars, sinceOpen, uiVars, srvVars, pageVars>>

(***************************************************************************)
(* Frames.                                                                 *)
(***************************************************************************)
TokenFrame(t) == [kind |-> "token", chat_id |-> Null, signature |-> Null]
TurnFrame(c, sig) == [kind |-> "turn", chat_id |-> c, signature |-> sig]
CreateFrame == [kind |-> "create", chat_id |-> Null, signature |-> Null]
SwitchFrame(c) == [kind |-> "switch", chat_id |-> c, signature |-> Null]
ImageFrame == [kind |-> "image", chat_id |-> Null, signature |-> Null]
PingFrame == [kind |-> "ping", chat_id |-> Null, signature |-> Null]

\* WebSocket.send(): throws on a CONNECTING socket, is dropped silently on a
\* CLOSING or CLOSED one, and is transmitted on an OPEN one.
SendThrows(rs, s) == s = NoSock \/ rs[s] = "CONNECTING"
WireAfterSend(rs, s, f) ==
    IF s # NoSock /\ rs[s] = "OPEN"
    THEN [wire EXCEPT ![s] = Append(@, f)]
    ELSE wire

\* WebSocket.close(): starts the closing handshake of a CONNECTING or OPEN socket.
StateAfterClose(rs, s) ==
    IF s # NoSock /\ rs[s] \in {"CONNECTING", "OPEN"}
    THEN [rs EXCEPT ![s] = "CLOSING"]
    ELSE rs

\* The frames of a socket are tracked while it is CONNECTING or OPEN: a socket
\* that is CLOSING or CLOSED transmits and delivers nothing more.
Untracked(rs) == {s \in Sockets : rs[s] \in {"CLOSING", "CLOSED"}}
Forget(f, rs, blank) == [s \in Sockets |-> IF s \in Untracked(rs) THEN blank ELSE f[s]]

IsOpen(s) == s # NoSock /\ readyState[s] = "OPEN"

RECURSIVE Pow2(_)
Pow2(n) == IF n <= 0 THEN 1 ELSE 2 * Pow2(n - 1)

(***************************************************************************)
(* MultimodalAgentClient                                                   *)
(***************************************************************************)
Init ==
    /\ ws = NoSock
    /\ sessionId = Null
    /\ chatId = Null
    /\ isAuthenticated = FALSE
    /\ isConnecting = FALSE
    /\ reconnectAttempts = 0
    /\ heartbeatInterval = FALSE
    /\ tokenSent = FALSE
    /\ nextSignature = Null
    /\ readyState = [s \in Sockets |-> "NONE"]
    /\ opened = [s \in Sockets |-> FALSE]
    /\ sockToken = [s \in Sockets |-> Null]
    /\ wire = [s \in Sockets |-> <<>>]
    /\ authRecv = [s \in Sockets |-> FALSE]
    /\ authFailed = [s \in Sockets |-> FALSE]
    /\ timers = EmptyBag
    /\ liveIntervals = 0
    /\ sinceOpen = 0
    /\ uiPhase = "unmounted"
    /\ awaited = NoSock
    /\ isConnected = FALSE
    /\ uiSessionId = Null
    /\ uiChatId = Null
    /\ isSending = FALSE
    /\ isTyping = FALSE
    /\ messages = <<>>
    /\ nanoStream = <<>>
    /\ uploadActive = FALSE
    /\ uploadChat = Null
    /\ detailsPending = {}
    /\ loadsPending = {}
    /\ historyPending = {}
    /\ chats = [c \in ChatIds |-> "absent"]
    /\ fallbackTimer = FALSE
    /\ srvChat = [s \in Sockets |-> Null]
    /\ srvRead = [s \in Sockets |-> 0]
    /\ deleted = {}
    /\ memCap = [a \in Agents |-> 0]
    /\ memory = [a \in Agents |-> <<>>]
    /\ memSeq = [a \in Agents |-> 0]
    /\ msgCount = 0
    /\ turnPhase = "idle"
    /\ turn = NoTurn
    /\ outbox = <<>>
    /\ nanosYielded = 0
    /\ msgAtStart = 0
    /\ eventHandlers = [ev \in HandlerEvents |-> <<>>]
    /\ nanoMessageHandlers = [k \in NanoKeys |-> <<>>]
    /\ invoked = <<>>
    /\ dispatched = Null
    /\ authUser = Null
    /\ authToken = Null
    /\ storedUser = Null
    /\ storedToken = Null
    /\ logoutPending = FALSE
    /\ logoutDone = FALSE
    /\ reloading = FALSE
    /\ signedOut = FALSE
    /\ turnsInFlight = [s \in Sockets |-> 0]
    /\ nanoLog = <<>>
    /\ nanoSeq = 0
    /\ switchedTo = Null

(***************************************************************************)
(* connect(token), lines 26-101: the part that runs synchronously.         *)
(***************************************************************************)
ConnectReturnsEarly == isConnecting \/ IsOpen(ws)

\* new WebSocket(url): the object takes the place of one whose close event has
\* fired; such an object has no behaviour left, so its slot is reused.
FreeSlots == {s \in Sockets : readyState[s] \in {"NONE", "CLOSED"}}
NewSocket == CHOOSE s \in FreeSlots : \A r \in FreeSlots : s <= r

ConnectBody(token) ==
    IF ConnectReturnsEarly
    THEN UNCHANGED <<ws, isConnecting, readyState, sockToken, opened, wire, authRecv,
                     authFailed>>
    ELSE /\ isConnecting' = TRUE
         /\ ws' = NewSocket
         /\ readyState' = [readyState EXCEPT ![NewSocket] = "CONNECTING"]
         /\ sockToken' = [sockToken EXCEPT ![NewSocket] = token]
         /\ opened' = [opened EXCEPT ![NewSocket] = FALSE]
         /\ wire' = [wire EXCEPT ![NewSocket] = <<>>]
         /\ authRecv' = [authRecv EXCEPT ![NewSocket] = FALSE]
         /\ authFailed' = [authFailed EXCEPT ![NewSocket] = FALSE]

ClientConnect(token) ==
    /\ ConnectBody(token)
    /\ UNCHANGED <<sessionId, chatId, isAuthenticated, reconnectAttempts,
                   heartbeatInterval, tokenSent, nextSignature>>
    /\ UNCHANGED <<timers, liveIntervals>>
    /\ UNCHANGED sinceOpen

(***************************************************************************)
(* ws.onopen of socket s, lines 38-60.  this.ws is read when the handler   *)
(* runs; it need not be s.                                                 *)
(***************************************************************************)
StateAfterOpen(s) == [readyState EXCEPT ![s] = "OPEN"]

OpenSendsToken(s) == sockToken[s] # Null /\ ~tokenSent

\* "resolved", "rejected", or "threw" (the handler ended in an exception before
\* it settled the promise of connect()).
OpenOutcome(s) ==
    IF sockToken[s] = Null
    THEN IF ws = NoSock THEN "threw" ELSE "rejected"
    ELSE IF OpenSendsToken(s) /\ SendThrows(StateAfterOpen(s), ws)
         THEN "threw"
         ELSE "resolved"

ClientOnOpen(s) ==
    /\ readyState[s] = "CONNECTING"
    /\ opened' = [opened EXCEPT ![s] = TRUE]
    /\ isConnecting' = FALSE
    /\ reconnectAttempts' = 0
    /\ IF sockToken[s] # Null
       THEN /\ readyState' = StateAfterOpen(s)
            /\ IF OpenSendsToken(s) /\ ~SendThrows(StateAfterOpen(s), ws)
               THEN /\ wire' = WireAfterSend(StateAfterOpen(s), ws, TokenFrame(sockToken[s]))
                    /\ tokenSent' = TRUE
               ELSE UNCHANGED <<wire, tokenSent>>
       ELSE /\ readyState' = StateAfterClose(StateAfterOpen(s), ws)
            /\ wire' = Forget(wire, readyState', <<>>)
            /\ UNCHANGED tokenSent
    /\ authRecv' = Forget(authRecv, readyState', FALSE)
    /\ UNCHANGED authFailed
    /\ UNCHANGED <<ws, sessionId, chatId, isAuthenticated, heartbeatInterval,
                   nextSignature>>
    /\ UNCHANGED <<sockToken, timers, liveIntervals>>
    /\ sinceOpen' = 0

(***************************************************************************)
(* scheduleReconnect(token), lines 103-112, as called from onclose.        *)
(***************************************************************************)
ReconnectDelayFor_Linear(attempt) == reconnectDelay * attempt
ReconnectDelayFor(attempt) == reconnectDelay * Pow2(attempt - 1)

ShouldReconnect_OffByOne(wasClean) ==
    ~wasClean /\ reconnectAttempts <= maxReconnectAttempts
ShouldReconnect(wasClean) == ~wasClean /\ reconnectAttempts < maxReconnectAttempts

TimerFor(token, attempt) ==
    [token |-> token, attempt |-> attempt, delay |-> ReconnectDelayFor(attempt)]

(***************************************************************************)
(* ws.onclose of socket s, lines 73-87 (with stopHeartbeat, lines 137-142).*)
(* The browser has set the socket CLOSED before the handler runs.  When    *)
(* the connection failed, ws.onerror (lines 89-94) runs in the same task   *)
(* just before: it clears isConnecting, which onclose clears again.        *)
(***************************************************************************)
ClientOnClose(s, wasClean) ==
    /\ readyState[s] \in {"CONNECTING", "OPEN", "CLOSING"}
    /\ readyState' = [readyState EXCEPT ![s] = "CLOSED"]
    /\ tokenSent' = FALSE
    /\ isAuthenticated' = FALSE
    /\ sessionId' = Null
    /\ isConnecting' = FALSE
    /\ heartbeatInterval' = FALSE
    /\ liveIntervals' = IF heartbeatInterval THEN liveIntervals - 1 ELSE liveIntervals
    /\ IF ShouldReconnect(wasClean)
       THEN /\ reconnectAttempts' = reconnectAttempts + 1
            /\ timers' = timers (+) SetToBag({TimerFor(sockToken[s], reconnectAttempts + 1)})
            /\ sinceOpen' = IF sinceOpen <= maxReconnectAttempts
                            THEN sinceOpen + 1 ELSE sinceOpen
       ELSE UNCHANGED <<reconnectAttempts, timers, sinceOpen>>
    /\ UNCHANGED <<ws, chatId, nextSignature>>
    \* nothing reads what a closed socket has sent or received
    /\ opened' = [opened EXCEPT ![s] = FALSE]
    /\ sockToken' = [sockToken EXCEPT ![s] = Null]
    /\ wire' = [wire EXCEPT ![s] = <<>>]
    /\ authRecv' = [authRecv EXCEPT ![s] = FALSE]
    /\ authFailed' = [authFailed EXCEPT ![s] = FALSE]

\* The close event is clean only when a closing handshake completed on an
\* established connection.
CanCloseCleanly(s) == readyState[s] = "CLOSING" /\ opened[s]

(***************************************************************************)
(* The timeout set by scheduleReconnect, lines 109-111.                    *)
(***************************************************************************)
ClientReconnectTimer(t) ==
    /\ BagIn(t, timers)
    /\ ConnectBody(t.token)
    /\ timers' = timers (-) SetToBag({t})
    /\ UNCHANGED <<sessionId, chatId, isAuthenticated, reconnectAttempts,
                   heartbeatInterval, tokenSent, nextSignature>>
    /\ UNCHANGED liveIntervals
    /\ UNCHANGED sinceOpen

(***************************************************************************)
(* disconnect(), lines 447-459.                                            *)
(***************************************************************************)
ClientDisconnect_KeepsSession ==
    /\ heartbeatInterval' = FALSE
    /\ liveIntervals' = IF heartbeatInterval THEN liveIntervals - 1 ELSE liveIntervals
    /\ readyState' = StateAfterClose(readyState, ws)
    /\ ws' = NoSock
    /\ isAuthenticated' = FALSE
    /\ chatId' = Null
    /\ reconnectAttempts' = 0
    /\ wire' = Forget(wire, readyState', <<>>)
    /\ authRecv' = Forget(authRecv, readyState', FALSE)
    /\ UNCHANGED authFailed
    /\ UNCHANGED <<sessionId, isConnecting, tokenSent, nextSignature>>
    /\ UNCHANGED <<opened, sockToken, timers>>
    /\ UNCHANGED sinceOpen
ClientDisconnect ==
    /\ heartbeatInterval' = FALSE
    /\ liveIntervals' = IF heartbeatInterval THEN liveIntervals - 1 ELSE liveIntervals
    /\ readyState' = StateAfterClose(readyState, ws)
    /\ ws' = NoSock
    /\ isAuthenticated' = FALSE
    /\ sessionId' = Null
    /\ chatId' = Null
    /\ reconnectAttempts' = 0
    /\ wire' = Forget(wire, readyState', <<>>)
    /\ authRecv' = Forget(authRecv, readyState', FALSE)
    /\ UNCHANGED authFailed
    /\ UNCHANGED <<isConnecting, tokenSent, nextSignature>>
    /\ UNCHANGED <<opened, sockToken, timers>>
    /\ UNCHANGED sinceOpen

(***************************************************************************)
(* Inbound frames.  A frame is what JSON.parse and handleMessage can tell  *)
(* apart: its type, whether text is absent, blank or has content, and the  *)
(* ids it carries.                                                         *)
(***************************************************************************)
KnownTypes == {"auth_success", "auth_error", "auth_required", "session_started",
               "chat_created", "chat_switched", "title_updated", "nano_message",
               "agent_direct_message", "agent_notification", "message", "pong"}
ChatEventTypes == {"auth_success", "session_started", "chat_created", "chat_switched"}
Texts == {"absent", "blank", "text"}

Data(type, text, chat, session) ==
    [type |-> type, text |-> text, chat_id |-> chat, session_id |-> session]

InboundFrames ==
    {Data(ty, tx, c, Null) :
        ty \in {"chat_created", "chat_switched", "title_updated"},
        tx \in Texts, c \in ChatIds}
    \cup {Data(ty, tx, c, sid) :
        ty \in {"auth_success", "session_started"},
        tx \in Texts, c \in ChatIds \cup {Null}, sid \in SessionIds}
    \cup {Data(ty, tx, Null, Null) :
        ty \in {"auth_error", "auth_required", "nano_message", "agent_direct_message",
                "agent_notification", "message", "pong", "chat_message", "other"},
        tx \in Texts}
    \cup {Data("notjson", "absent", Null, Null)}

(***************************************************************************)
(* ws.onmessage, lines 63-70, and handleMessage, lines 144-199: the event  *)
(* a frame is dispatched as, or "none".                                    *)
(***************************************************************************)
IsDropped(d) == d.type = "notjson" \/ d.text = "blank"

EventOf_AnyText(d) ==
    IF IsDropped(d) THEN "none"
    ELSE IF d.type = "pong" THEN "none"
    ELSE IF d.type \in KnownTypes THEN d.type
    ELSE "chat_message"
EventOf(d) ==
    IF IsDropped(d) THEN "none"
    ELSE IF d.type = "pong" THEN "none"
    ELSE IF d.type \in KnownTypes THEN d.type
    ELSE IF d.text = "text" THEN "chat_message"
    ELSE "none"

\* startHeartbeat() without its call of stopHeartbeat()
IntervalsAfterStart_NoStop == liveIntervals + 1

\* startHeartbeat(), lines 114-134: stop the running timer, start one.
IntervalsAfterStart == (IF heartbeatInterval THEN liveIntervals - 1 ELSE liveIntervals) + 1

\* handleAuthSuccess, lines 201-213
HandleAuthSuccess(d) ==
    /\ isAuthenticated' = TRUE
    /\ sessionId' = d.session_id
    /\ chatId' = d.chat_id
    /\ heartbeatInterval' = TRUE
    /\ liveIntervals' = IntervalsAfterStart

HandleAuthError_ClearsChat(d) ==
    /\ isAuthenticated' = FALSE
    /\ sessionId' = Null
    /\ chatId' = Null
    /\ UNCHANGED <<heartbeatInterval, liveIntervals>>

\* handleAuthError, lines 216-223, and handleAuthRequired, lines 225-231
HandleAuthError(d) ==
    /\ isAuthenticated' = FALSE
    /\ sessionId' = Null
    /\ UNCHANGED <<chatId, heartbeatInterval, liveIntervals>>

\* handleSessionStarted, lines 233-239
HandleSessionStarted(d) ==
    /\ sessionId' = d.session_id
    /\ chatId' = d.chat_id
    /\ UNCHANGED <<isAuthenticated, heartbeatInterval, liveIntervals>>

\* handleChatCreated, lines 241-246, and handleChatSwitched, lines 248-253
HandleChatChanged(d) ==
    /\ chatId' = d.chat_id
    /\ UNCHANGED <<isAuthenticated, sessionId, heartbeatInterval, liveIntervals>>

ClientOnMessage(s, d) ==
    /\ readyState[s] = "OPEN"
    /\ CASE EventOf(d) = "auth_success" -> HandleAuthSuccess(d)
         [] EventOf(d) \in {"auth_error", "auth_required"} -> HandleAuthError(d)
         [] EventOf(d) = "session_started" -> HandleSessionStarted(d)
         [] EventOf(d) \in {"chat_created", "chat_switched"} -> HandleChatChanged(d)
         [] OTHER -> UNCHANGED <<isAuthenticated, sessionId, chatId,
                                 heartbeatInterval, liveIntervals>>
    /\ authRecv' = [authRecv EXCEPT ![s] = @ \/ EventOf(d) = "auth_success"]
    /\ authFailed' = [authFailed EXCEPT ![s] = (@ \/ EventOf(d) = "auth_error")
                                               /\ EventOf(d) # "auth_success"]
    /\ UNCHANGED <<ws, isConnecting, reconnectAttempts, tokenSent, nextSignature>>
    /\ UNCHANGED <<readyState, opened, sockToken, wire, timers>>
    /\ UNCHANGED sinceOpen

(***************************************************************************)
(* The heartbeat tick, lines 118-133.                                      *)
(***************************************************************************)
CanSend == isAuthenticated /\ ws # NoSock /\ readyState[ws] = "OPEN"

ClientHeartbeatTick ==
    /\ liveIntervals > 0
    /\ wire' = IF CanSend THEN WireAfterSend(readyState, ws, PingFrame) ELSE wire
    /\ UNCHANGED clientVars
    /\ UNCHANGED <<readyState, opened, sockToken, authRecv, authFailed, timers,
                   liveIntervals>>
    /\ UNCHANGED sinceOpen

(***************************************************************************)
(* sendMessage, lines 297-327.  The message is "empty", "blank" or "text". *)
(***************************************************************************)
SendOutcome(message) ==
    IF ~CanSend THEN "threw"
    ELSE IF message \in {"empty", "blank"} THEN "ignored"
    ELSE "sent"

ClientSendMessage_KeepsSignature(message, chatArg) ==
    /\ IF SendOutcome(message) = "sent"
       THEN wire' = WireAfterSend(readyState, ws,
                        TurnFrame(IF chatArg # Null THEN chatArg ELSE chatId,
                                  nextSignature))
       ELSE UNCHANGED wire
    /\ UNCHANGED clientVars
    /\ UNCHANGED <<readyState, opened, sockToken, authRecv, authFailed, timers, liveIntervals>>
    /\ UNCHANGED sinceOpen

PayloadChat(chatArg) == IF chatArg # Null THEN chatArg ELSE chatId

ClientSendMessage(message, chatArg) ==
    /\ IF SendOutcome(message) = "sent"
       THEN /\ wire' = WireAfterSend(readyState, ws,
                           TurnFrame(PayloadChat(chatArg), nextSignature))
            /\ nextSignature' = Null
       ELSE UNCHANGED <<wire, nextSignature>>
    /\ UNCHANGED <<ws, sessionId, chatId, isAuthenticated, isConnecting,
                   reconnectAttempts, heartbeatInterval, tokenSent>>
    /\ UNCHANGED <<readyState, opened, sockToken, authRecv, authFailed, timers,
                   liveIntervals>>
    /\ UNCHANGED sinceOpen

\* createNewChat, lines 330-342
ClientCreateNewChat ==
    /\ wire' = IF CanSend THEN WireAfterSend(readyState, ws, CreateFrame) ELSE wire
    /\ UNCHANGED clientVars
    /\ UNCHANGED <<readyState, opened, sockToken, authRecv, authFailed, timers,
                   liveIntervals>>
    /\ UNCHANGED sinceOpen

\* switchToChat, lines 344-358
SwitchSends(c) == CanSend /\ c # chatId

ClientSwitchToChat(c) ==
    /\ wire' = IF SwitchSends(c) THEN WireAfterSend(readyState, ws, SwitchFrame(c)) ELSE wire
    /\ UNCHANGED clientVars
    /\ UNCHANGED <<readyState, opened, sockToken, authRecv, authFailed, timers,
                   liveIntervals>>
    /\ UNCHANGED sinceOpen

\* sendImage, lines 364-370
ClientSendImage ==
    /\ wire' = IF CanSend THEN WireAfterSend(readyState, ws, ImageFrame) ELSE wire
    /\ UNCHANGED clientVars
    /\ UNCHANGED <<readyState, opened, sockToken, authRecv, authFailed, timers,
                   liveIntervals>>
    /\ UNCHANGED sinceOpen

\* The field _nextSignature, line 23, is assigned by the caller that wants the
\* next message routed to a named agent.
ClientSetSignature(sig) ==
    /\ nextSignature' = sig
    /\ UNCHANGED <<ws, sessionId, chatId, isAuthenticated, isConnecting,
                   reconnectAttempts, heartbeatInterval, tokenSent>>
    /\ UNCHANGED browserVars
    /\ UNCHANGED sinceOpen

(***************************************************************************)
(* The server end of a socket, as far as the handshake goes: it answers a  *)
(* token with auth_success or auth_error, asks for authentication before   *)
(* that, and sends the other events only on an authenticated connection.   *)
(* A frame that is not valid JSON or of no known type may arrive any time. *)
(***************************************************************************)
TokenReceived(s) == Len(wire[s]) > 0 /\ wire[s][1].kind = "token"

ServerMaySend(s, d) ==
    CASE d.type \in {"auth_success", "auth_error"} -> TokenReceived(s) /\ ~authRecv[s]
      [] d.type = "auth_required" -> ~authRecv[s]
      [] d.type \in {"notjson", "other"} -> TRUE
      [] OTHER -> authRecv[s]

(***************************************************************************)
(* The steps of the client used by any caller.                             *)
(***************************************************************************)
HasRoom == ws # NoSock => Len(wire[ws]) < MaxFrames
TimerRoom == BagCardinality(timers) < MaxTimers

\* no ChatInterface is attached to the client
NoUI == UNCHANGED <<uiVars, srvVars, pageVars>>

Connect(token) ==
    /\ ConnectReturnsEarly \/ FreeSlots # {}
    /\ ClientConnect(token)
    /\ NoUI

Disconnect == ClientDisconnect /\ NoUI

OnOpen(s) == ClientOnOpen(s) /\ NoUI

OnMessage(s, d) ==
    /\ ServerMaySend(s, d)
    /\ ClientOnMessage(s, d)
    /\ NoUI

\* The peer starts the closing handshake: the socket is CLOSING until its
\* close event.
BrowserPeerStartsClose(s) ==
    /\ readyState[s] = "OPEN"
    /\ readyState' = [readyState EXCEPT ![s] = "CLOSING"]
    /\ wire' = Forget(wire, readyState', <<>>)
    /\ authRecv' = Forget(authRecv, readyState', FALSE)
    /\ UNCHANGED authFailed
    /\ UNCHANGED clientVars
    /\ UNCHANGED <<opened, sockToken, timers, liveIntervals>>
    /\ UNCHANGED sinceOpen

PeerStartsClose(s) == BrowserPeerStartsClose(s) /\ NoUI

OnCloseClean(s) ==
    /\ CanCloseCleanly(s)
    /\ ClientOnClose(s, TRUE)
    /\ NoUI

OnCloseUnclean(s) ==
    /\ ShouldReconnect(FALSE) => TimerRoom
    /\ ClientOnClose(s, FALSE)
    /\ NoUI

ReconnectTimer(t) ==
    /\ ConnectReturnsEarly \/ FreeSlots # {}
    /\ ClientReconnectTimer(t)
    /\ NoUI

HeartbeatTick ==
    /\ HasRoom
    /\ ClientHeartbeatTick
    /\ NoUI

SendMessage(message, chatArg) ==
    /\ HasRoom
    /\ ClientSendMessage(message, chatArg)
    /\ NoUI

CreateNewChat ==
    /\ HasRoom
    /\ ClientCreateNewChat
    /\ NoUI

SwitchToChat(c) ==
    /\ HasRoom
    /\ ClientSwitchToChat(c)
    /\ NoUI

SendImage ==
    /\ HasRoom
    /\ ClientSendImage
    /\ NoUI

SetSignature(sig) == ClientSetSignature(sig) /\ NoUI

\* The handshake replies of the server.
HandshakeFrames ==
    {Data("auth_success", "absent", c, sid) : c \in {"c1"}, sid \in SessionIds}
    \cup {Data("auth_error", "absent", Null, Null)}

(***************************************************************************)
(* Spec: one client used through its whole API by a caller that calls      *)
(* connect() only when the client has no socket left that is not closed    *)
(* and no reconnect pending, against a server that may send any frame.     *)
(***************************************************************************)
CallerMayConnect == FreeSlots = Sockets /\ timers = EmptyBag

Next ==
    \/ \E token \in Tokens : CallerMayConnect /\ Connect(token)
    \/ Disconnect
    \/ \E s \in Sockets : OnOpen(s)
    \/ \E s \in Sockets, d \in InboundFrames : OnMessage(s, d)
    \/ \E s \in Sockets : PeerStartsClose(s)
    \/ \E s \in Sockets : OnCloseClean(s)
    \/ \E s \in Sockets : OnCloseUnclean(s)
    \/ \E t \in BagToSet(timers) : ReconnectTimer(t)
    \/ HeartbeatTick
    \/ \E m \in {"empty", "blank", "text"}, c \in ChatIds \cup {Null} : SendMessage(m, c)
    \/ CreateNewChat
    \/ \E c \in ChatIds : SwitchToChat(c)
    \/ SendImage
    \/ \E sig \in Signatures \cup {Null} : SetSignature(sig)

Spec == Init /\ [][Next]_vars

(***************************************************************************)
(* SpecConn: the connection life cycle under every interleaving of         *)
(* connect() with a token, disconnect(), socket events, reconnect timers   *)
(* and the handshake replies.                                              *)
(***************************************************************************)
NextConn ==
    \/ Connect("tok")
    \/ Disconnect
    \/ \E s \in Sockets : OnOpen(s)
    \/ \E s \in Sockets, d \in HandshakeFrames : OnMessage(s, d)
    \/ \E s \in Sockets : PeerStartsClose(s)
    \/ \E s \in Sockets : OnCloseClean(s)
    \/ \E s \in Sockets : OnCloseUnclean(s)
    \/ \E t \in BagToSet(timers) : ReconnectTimer(t)

SpecConn == Init /\ [][NextConn]_vars

(***************************************************************************)
(* SpecAuth: the same interleavings, with a caller that also connects      *)
(* without a token and sends messages, and with the heartbeat.             *)
(***************************************************************************)
NextAuth ==
    \/ NextConn
    \/ Connect(Null)
    \/ HeartbeatTick
    \/ SendMessage("text", Null)

SpecAuth == Init /\ [][NextAuth]_vars

(***************************************************************************)
(* SpecBeat: the connection life cycle with the heartbeat and the pongs    *)
(* that answer it.                                                         *)
(***************************************************************************)
PongFrames == {d \in InboundFrames : d.type = "pong"}

NextBeat ==
    \/ Connect("tok")
    \/ Disconnect
    \/ \E s \in Sockets : OnOpen(s)
    \/ \E s \in Sockets, d \in HandshakeFrames \cup PongFrames : OnMessage(s, d)
    \/ \E s \in Sockets : PeerStartsClose(s)
    \/ \E s \in Sockets : OnCloseClean(s)
    \/ \E s \in Sockets : OnCloseUnclean(s)
    \/ \E t \in BagToSet(timers) : ReconnectTimer(t)
    \/ HeartbeatTick

SpecBeat == Init /\ [][NextBeat]_vars

(***************************************************************************)
(* ChatInterface (src/frontend/components/ChatInput.js, lines 309-1000).   *)
(* State that only feeds the rendering (connectionError, the input text,   *)
(* isConnecting, nanoExpanded) is left out.  Of an entry of the chat list  *)
(* the model keeps the chat id and whether its title is one the server     *)
(* stored or a default ("stored") or one pushed by title_updated           *)
(* ("pushed"); the order of the list, last_active and message_count are    *)
(* left out.                                                               *)
(***************************************************************************)
Min(a, b) == IF a <= b THEN a ELSE b

\* Array.prototype.slice(-k)
SliceLast_KeepsFirst(q, k) == SubSeq(q, 1, Min(k, Len(q)))
SliceLast(q, k) == IF Len(q) <= k THEN q ELSE SubSeq(q, Len(q) - k + 1, Len(q))

\* An entry of nanoStream.  The id is unique (Date.now() + Math.random());
\* src tells a nano_message of the server from a status line of the upload;
\* chat is the chat whose turn the server emitted the nano_message for.
NanoEntry(src, chat) == [id |-> nanoSeq + 1, src |-> src, chat |-> chat]

\* setNanoStream(prev => [...prev, entry].slice(-12)), lines 483-487, 528, 543, 545
NanoAppend(entry) ==
    /\ nanoStream' = SliceLast(Append(nanoStream, entry), NanoCap)
    /\ nanoLog' = Append(nanoLog, entry)
    /\ nanoSeq' = nanoSeq + 1

\* setNanoStream([]), lines 438 and 467
NanoClear ==
    /\ nanoStream' = <<>>
    /\ nanoLog' = <<>>
    /\ UNCHANGED nanoSeq

Message(role, chat) == [role |-> role, chat |-> chat]

\* GET /chats/{id}/messages: the stored messages of the chat
History(c) == <<Message("history", c)>>

(***************************************************************************)
(* The handlers registered with wsClient.on(), lines 395-488.              *)
(***************************************************************************)
\* lines 395-404
OnAuthSuccess(d) ==
    /\ isConnected' = TRUE
    /\ uiSessionId' = d.session_id
    /\ uiChatId' = d.chat_id
    /\ historyPending' = historyPending \cup {d.chat_id}
    /\ switchedTo' = Null
    /\ UNCHANGED <<isSending, isTyping, messages, nanoStream, nanoLog, nanoSeq,
                   detailsPending, loadsPending, chats>>

\* lines 406-409
OnDisconnected ==
    /\ isConnected' = FALSE
    /\ uiSessionId' = Null
    /\ UNCHANGED <<uiChatId, isSending, isTyping, messages, nanoStream, nanoLog,
                   nanoSeq, switchedTo, detailsPending, loadsPending,
                   historyPending, chats>>

\* lines 411-415
OnAuthError ==
    /\ isConnected' = FALSE
    /\ UNCHANGED <<uiSessionId, uiChatId, isSending, isTyping, messages,
                   nanoStream, nanoLog, nanoSeq, switchedTo, detailsPending,
                   loadsPending, historyPending, chats>>

OnChatMessage_KeepsSending ==
    /\ messages' = Append(messages, Message("assistant", Null))
    /\ isTyping' = FALSE
    /\ UNCHANGED <<isConnected, uiSessionId, uiChatId, isSending, nanoStream,
                   nanoLog, nanoSeq, switchedTo, detailsPending, loadsPending,
                   historyPending, chats>>

\* lines 417-433
OnChatMessage ==
    /\ messages' = Append(messages, Message("assistant", Null))
    /\ isTyping' = FALSE
    /\ isSending' = FALSE
    /\ UNCHANGED <<isConnected, uiSessionId, uiChatId, nanoStream, nanoLog,
                   nanoSeq, switchedTo, detailsPending, loadsPending,
                   historyPending, chats>>

\* lines 435-441
OnChatCreated(d) ==
    /\ uiChatId' = d.chat_id
    /\ NanoClear
    /\ loadsPending' = loadsPending \cup {d.chat_id}
    /\ chats' = [chats EXCEPT ![d.chat_id] = "stored"]
    /\ switchedTo' = d.chat_id
    /\ UNCHANGED <<isConnected, uiSessionId, isSending, isTyping, messages,
                   detailsPending, historyPending>>

\* lines 443-448: up to the await of the details request
OnChatSwitched(d) ==
    /\ uiChatId' = d.chat_id
    /\ detailsPending' = detailsPending \cup {d.chat_id}
    /\ switchedTo' = d.chat_id
    /\ UNCHANGED <<isConnected, uiSessionId, isSending, isTyping, messages,
                   nanoStream, nanoLog, nanoSeq, loadsPending,
                   historyPending, chats>>

\* lines 482-488
OnNanoMessage(d) ==
    /\ NanoAppend(NanoEntry("server", d.chat_id))
    /\ UNCHANGED <<isConnected, uiSessionId, uiChatId, isSending, isTyping,
                   messages, switchedTo, detailsPending, loadsPending,
                   historyPending, chats>>

\* prev.map(chat => chat.chat_id === id ? {...chat, title} : chat), line 474
Retitle_AddsEntry(list, id) ==
    [c \in ChatIds |-> IF c = id THEN "pushed" ELSE list[c]]
Retitle(list, id) ==
    [c \in ChatIds |-> IF c = id /\ list[c] # "absent" THEN "pushed" ELSE list[c]]

\* lines 472-479
OnTitleUpdated(d) ==
    /\ chats' = Retitle(chats, d.chat_id)
    /\ UNCHANGED <<isConnected, uiSessionId, uiChatId, isSending, isTyping,
                   messages, nanoStream, nanoLog, nanoSeq, switchedTo,
                   detailsPending, loadsPending, historyPending>>

\* emit(event, data), websocket-client.js lines 390-400, with the handlers
\* ChatInterface has registered
Emit(event, d) ==
    IF uiPhase # "ready" THEN UNCHANGED uiState
    ELSE CASE event = "auth_success" -> OnAuthSuccess(d)
           [] event = "disconnected" -> OnDisconnected
           [] event = "auth_error" -> OnAuthError
           [] event = "chat_message" -> OnChatMessage
           [] event = "chat_created" -> OnChatCreated(d)
           [] event = "chat_switched" -> OnChatSwitched(d)
           [] event = "nano_message" -> OnNanoMessage(d)
           [] event = "title_updated" -> OnTitleUpdated(d)
           [] OTHER -> UNCHANGED uiState

(***************************************************************************)
(* The server end of a socket that ChatInterface talks to.  It handles the *)
(* frames of a connection strictly one after the other: it answers the     *)
(* token with auth_success or auth_error, a chat request with chat_created *)
(* or chat_switched, and a turn with nano_message events for the bound     *)
(* chat followed by one frame that has no type and ends the turn; a turn   *)
(* addressed to another chat than the bound one rebinds the connection     *)
(* first.  The chat_id of a nano_message frame is not on the wire: it is   *)
(* the chat the server emitted the event for.                              *)
(***************************************************************************)
NoFrame == [kind |-> "none", chat_id |-> Null, signature |-> Null]

\* the frame the server is handling
Current(s) == IF srvRead[s] < Len(wire[s]) THEN wire[s][srvRead[s] + 1] ELSE NoFrame

NeedsRebind(s) ==
    Current(s).kind = "turn" /\ Current(s).chat_id \notin {Null, srvChat[s]}

ServerFrames ==
    {Data("auth_success", "absent", c, sid) : c \in ChatIds, sid \in SessionIds}
    \cup {Data("auth_error", "absent", Null, Null)}
    \cup {Data(ty, "absent", c, Null) :
            ty \in {"chat_created", "chat_switched", "title_updated", "nano_message"},
            c \in ChatIds}
    \cup {Data("other", tx, Null, Null) : tx \in Texts}
    \cup {Data("notjson", "absent", Null, Null)}

ServerSends(s, d) ==
    CASE d.type \in {"auth_success", "auth_error"} -> Current(s).kind = "token"
      [] d.type = "notjson" -> TRUE
      [] d.type = "chat_switched" ->
            /\ Current(s).kind = "switch" \/ NeedsRebind(s)
            /\ d.chat_id = Current(s).chat_id
      [] d.type = "chat_created" ->
            \/ Current(s).kind = "switch" /\ d.chat_id = Current(s).chat_id
            \/ Current(s).kind = "create" /\ d.chat_id # srvChat[s]
      [] d.type \in {"title_updated", "nano_message"} ->
            /\ Current(s).kind = "turn" /\ ~NeedsRebind(s)
            /\ d.chat_id = srvChat[s]
      [] d.type = "other" -> Current(s).kind = "turn" /\ ~NeedsRebind(s)
      [] OTHER -> FALSE

\* the frame d ends the handling of the current frame
ServerDone(s, d) ==
    \/ d.type \in {"auth_success", "auth_error", "other"}
    \/ d.type \in {"chat_created", "chat_switched"} /\ ~NeedsRebind(s)

ServerAfter(s, d) ==
    /\ srvChat' = IF d.type \in {"auth_success", "chat_created", "chat_switched"}
                  THEN [srvChat EXCEPT ![s] = d.chat_id]
                  ELSE srvChat
    /\ srvRead' = IF ServerDone(s, d) THEN [srvRead EXCEPT ![s] = @ + 1] ELSE srvRead
    /\ turnsInFlight' = IF d.type = "other"
                        THEN [turnsInFlight EXCEPT ![s] = @ - 1]
                        ELSE turnsInFlight
    /\ UNCHANGED <<deleted, routerVars, pageVars>>

\* the server's state of a socket ends with the connection
ServerForget ==
    /\ srvChat' = Forget(srvChat, readyState', Null)
    /\ srvRead' = Forget(srvRead, readyState', 0)
    /\ turnsInFlight' = Forget(turnsInFlight, readyState', 0)
    /\ UNCHANGED <<deleted, routerVars, pageVars>>

(***************************************************************************)
(* The effect of lines 342-502.                                            *)
(***************************************************************************)
\* connect(), lines 383-387, on mount
Mount(token) ==
    /\ uiPhase = "unmounted"
    /\ ClientConnect(token)
    /\ uiPhase' = "awaiting"
    /\ awaited' = ws'
    /\ UNCHANGED <<uploadActive, uploadChat, fallbackTimer, uiState>>
    /\ UNCHANGED <<srvVars, pageVars>>

\* the cleanup, lines 499-501; the state of the component is discarded
Unmount ==
    /\ uiPhase \in {"awaiting", "ready", "failed"}
    /\ ClientDisconnect
    /\ uiPhase' = "gone"
    /\ awaited' = NoSock
    /\ isConnected' = FALSE
    /\ uiSessionId' = Null
    /\ uiChatId' = Null
    /\ isSending' = FALSE
    /\ isTyping' = FALSE
    /\ messages' = <<>>
    /\ NanoClear
    /\ switchedTo' = Null
    /\ detailsPending' = {}
    /\ loadsPending' = {}
    /\ historyPending' = {}
    /\ chats' = [c \in ChatIds |-> "absent"]
    /\ UNCHANGED <<uploadActive, uploadChat, fallbackTimer>>
    /\ ServerForget

\* the continuation of line 387 runs when the promise of the awaited socket
\* settles: before any other event of the socket is handled
Settles(s) == uiPhase = "awaiting" /\ s = awaited

PhaseAfterOpen(s) ==
    IF ~Settles(s) THEN uiPhase
    ELSE CASE OpenOutcome(s) = "resolved" -> "ready"
           [] OpenOutcome(s) = "rejected" -> "failed"
           [] OTHER -> uiPhase

UIOnOpen(s) ==
    /\ ClientOnOpen(s)
    /\ uiPhase' = PhaseAfterOpen(s)
    /\ awaited' = IF uiPhase' = "awaiting" THEN awaited ELSE NoSock
    /\ fallbackTimer' = (fallbackTimer \/ (uiPhase' = "ready" /\ uiPhase # "ready"))
    /\ UNCHANGED <<uploadActive, uploadChat, uiState>>
    /\ ServerForget

UIOnMessage(s, d) ==
    /\ ServerSends(s, d)
    /\ ClientOnMessage(s, d)
    /\ Emit(EventOf(d), d)
    /\ ServerAfter(s, d)
    /\ UNCHANGED <<uiPhase, awaited, uploadActive, uploadChat, fallbackTimer>>

UIPeerStartsClose(s) ==
    /\ BrowserPeerStartsClose(s)
    /\ ServerForget
    /\ UNCHANGED uiVars

\* onerror (lines 89-94) rejects the promise of a socket that never opened
UIOnClose(s, wasClean) ==
    /\ ClientOnClose(s, wasClean)
    /\ uiPhase' = IF Settles(s) /\ readyState[s] = "CONNECTING" THEN "failed"
                  ELSE uiPhase
    /\ awaited' = IF uiPhase' = "awaiting" THEN awaited ELSE NoSock
    /\ Emit("disconnected", Null)
    /\ ServerForget
    /\ UNCHANGED <<uploadActive, uploadChat, fallbackTimer>>

UIOnCloseClean(s) ==
    /\ CanCloseCleanly(s)
    /\ UIOnClose(s, TRUE)

UIOnCloseUnclean(s) ==
    /\ ShouldReconnect(FALSE) => TimerRoom
    /\ reconnectAttempts < MaxUIReconnects
    /\ UIOnClose(s, FALSE)

UIReconnectTimer(t) ==
    /\ ConnectReturnsEarly \/ FreeSlots # {}
    /\ ClientReconnectTimer(t)
    /\ UNCHANGED <<uiVars, srvVars, pageVars>>

UIRoom == ws # NoSock => Len(wire[ws]) < MaxUIFrames

\* the timeout of lines 490-494
FallbackTimer ==
    /\ fallbackTimer
    /\ UIRoom
    /\ fallbackTimer' = FALSE
    /\ IF chatId = Null THEN ClientCreateNewChat
       ELSE UNCHANGED <<clientVars, browserVars, sinceOpen>>
    /\ UNCHANGED <<uiPhase, awaited, uploadActive, uploadChat, uiState>>
    /\ UNCHANGED <<srvVars, pageVars>>

(***************************************************************************)
(* handleSendMessage, lines 512-597.  The text is not blank (line 514).    *)
(***************************************************************************)
MaySend == uiPhase = "ready" /\ isConnected /\ ~isSending

TurnsAfterSend ==
    IF SendOutcome("text") = "sent"
    THEN [turnsInFlight EXCEPT ![ws] = @ + 1]
    ELSE turnsInFlight

\* lines 564-589: the user's message is shown and the turn frame is sent with
\* the chatId the call closed over; sending is the value of isSending before
SendTail(chat, sending) ==
    /\ ClientSendMessage("text", chat)
    /\ turnsInFlight' = TurnsAfterSend
    /\ messages' = Append(messages, Message("user", Null))
    /\ isTyping' = (SendOutcome("text") = "sent")
    /\ isSending' = (sending /\ SendOutcome("text") = "sent")
    /\ UNCHANGED <<srvChat, srvRead, deleted, routerVars, pageVars>>

\* no media selected: the call runs to its end
HandleSendMessage ==
    /\ MaySend
    /\ SendTail(uiChatId, TRUE)
    /\ UNCHANGED <<uiPhase, awaited, uploadActive, uploadChat, fallbackTimer>>
    /\ UNCHANGED <<isConnected, uiSessionId, uiChatId, nanoStream, nanoLog,
                   nanoSeq, switchedTo, detailsPending, loadsPending,
                   historyPending, chats>>

\* media selected: lines 518-530, up to the await of the upload
HandleSendMessageWithMedia ==
    /\ MaySend
    /\ ~uploadActive
    /\ isSending' = TRUE
    /\ NanoAppend(NanoEntry("client", Null))
    /\ uploadActive' = TRUE
    /\ uploadChat' = uiChatId
    /\ UNCHANGED <<uiPhase, awaited, fallbackTimer>>
    /\ UNCHANGED <<isConnected, uiSessionId, uiChatId, isTyping, messages,
                   switchedTo, detailsPending, loadsPending,
                   historyPending, chats>>
    /\ UNCHANGED <<clientVars, browserVars, sinceOpen, srvVars, pageVars>>

\* lines 531-589: the upload succeeded or failed; either way a status line is
\* appended and the message is sent.  After the cleanup the state setters
\* have no effect, the call of sendMessage has.
UploadDone ==
    /\ uploadActive
    /\ uploadActive' = FALSE
    /\ uploadChat' = Null
    /\ ClientSendMessage("text", uploadChat)
    /\ turnsInFlight' = TurnsAfterSend
    /\ IF uiPhase = "gone"
       THEN UNCHANGED uiState
       ELSE /\ NanoAppend(NanoEntry("client", Null))
            /\ messages' = Append(messages, Message("user", Null))
            /\ isTyping' = (SendOutcome("text") = "sent")
            /\ isSending' = (isSending /\ SendOutcome("text") = "sent")
            /\ UNCHANGED <<isConnected, uiSessionId, uiChatId, switchedTo,
                           detailsPending, loadsPending, historyPending, chats>>
    /\ UNCHANGED <<uiPhase, awaited, fallbackTimer>>
    /\ UNCHANGED <<srvChat, srvRead, deleted, routerVars, pageVars>>

\* onStopStreaming, lines 982-985; the button is rendered while isStreaming
\* (line 981)
OnStopStreaming ==
    /\ uiPhase \in {"ready", "failed"}
    /\ isTyping \/ isSending
    /\ isTyping' = FALSE
    /\ isSending' = FALSE
    /\ UNCHANGED <<isConnected, uiSessionId, uiChatId, messages, nanoStream,
                   nanoLog, nanoSeq, switchedTo, detailsPending, loadsPending,
                   historyPending, chats>>
    /\ UNCHANGED <<uiPhase, awaited, uploadActive, uploadChat, fallbackTimer>>
    /\ UNCHANGED <<clientVars, browserVars, sinceOpen, srvVars, pageVars>>

(***************************************************************************)
(* Chats: handleSelectChat, lines 624-630, and the requests the handlers   *)
(* of chat events wait for.                                                *)
(***************************************************************************)
\* GET /chats/history: the chats the server stores
ServerChatList == [c \in ChatIds |-> IF c \in deleted THEN "absent" ELSE "stored"]

\* chat is a chat id, or Null for handleSelectChat(null): reading chat.chat_id
\* throws, and the catch of line 627 only shows the error
SelectChat(chat) ==
    IF chat = Null
    THEN UNCHANGED <<clientVars, browserVars, sinceOpen>>
    ELSE ClientSwitchToChat(chat)

HandleSelectChat(c) ==
    /\ uiPhase \in {"ready", "failed"}
    /\ SelectChat(c)
    /\ UNCHANGED <<uiVars, srvVars, pageVars>>

\* ChatHistory.handleDeleteChat, ChatHistory.js lines 76-114, for the chat c of
\* the list: the DELETE request succeeds or fails; after a success the chat
\* leaves the list and, if it was the selected one, onSelectChat(null) is
\* called (lines 101-103), which is handleSelectChat (ChatInput.js line 811).
DeleteChat(c, ok) ==
    /\ uiPhase \in {"ready", "failed"}
    /\ c \notin deleted
    /\ deleted' = IF ok THEN deleted \cup {c} ELSE deleted
    /\ IF ok /\ uiChatId = c
       THEN SelectChat(Null)
       ELSE UNCHANGED <<clientVars, browserVars, sinceOpen>>
    \* onChatsChange(updatedChats), lines 95-98: the list of ChatHistory less c
    /\ chats' = IF ok THEN [x \in ChatIds |-> IF x = c THEN "absent"
                                               ELSE ServerChatList[x]]
                ELSE chats
    /\ UNCHANGED <<isConnected, uiSessionId, uiChatId, isSending, isTyping,
                   messages, nanoStream, nanoLog, nanoSeq, switchedTo,
                   detailsPending, loadsPending, historyPending>>
    /\ UNCHANGED <<uiPhase, awaited, uploadActive, uploadChat, fallbackTimer>>
    /\ UNCHANGED <<srvChat, srvRead, turnsInFlight, routerVars, pageVars>>

\* handleCreateChat, lines 602-622, from the return of the POST request: the
\* server created the chat c, which no connection is bound to yet, or the
\* request failed.  After a success the entry is added to the list, the state
\* chatId is set and switchToChat is called, whose exception is caught.
HandleCreateChat(c, ok) ==
    /\ uiPhase \in {"ready", "failed"}
    /\ c \notin deleted
    /\ c # uiChatId /\ c # chatId /\ \A s \in Sockets : srvChat[s] # c
    /\ IF ok
       THEN /\ chats' = [chats EXCEPT ![c] = "stored"]
            /\ uiChatId' = c
            /\ SelectChat(c)
       ELSE UNCHANGED <<chats, uiChatId, clientVars, browserVars, sinceOpen>>
    /\ UNCHANGED <<isConnected, uiSessionId, isSending, isTyping, messages,
                   nanoStream, nanoLog, nanoSeq, switchedTo, detailsPending,
                   loadsPending, historyPending>>
    /\ UNCHANGED <<uiPhase, awaited, uploadActive, uploadChat, fallbackTimer>>
    /\ UNCHANGED <<srvVars, pageVars>>

\* lines 449-469: the details request of a chat_switched handler returned
DetailsDone(c) ==
    /\ c \in detailsPending
    /\ detailsPending' = detailsPending \ {c}
    /\ NanoClear
    /\ loadsPending' = loadsPending \cup {c}
    /\ chats' = [chats EXCEPT ![c] = "stored"]
    /\ UNCHANGED <<isConnected, uiSessionId, uiChatId, isSending, isTyping,
                   messages, switchedTo, historyPending>>
    /\ UNCHANGED <<uiPhase, awaited, uploadActive, uploadChat, fallbackTimer>>
    /\ UNCHANGED <<clientVars, browserVars, sinceOpen, srvVars, pageVars>>

\* lines 364-380: the request of loadChatMessages returned
MessagesLoaded(c, ok) ==
    /\ c \in loadsPending
    /\ loadsPending' = loadsPending \ {c}
    /\ messages' = IF ok THEN History(c) ELSE messages
    /\ UNCHANGED <<isConnected, uiSessionId, uiChatId, isSending, isTyping,
                   nanoStream, nanoLog, nanoSeq, switchedTo, detailsPending,
                   historyPending, chats>>
    /\ UNCHANGED <<uiPhase, awaited, uploadActive, uploadChat, fallbackTimer>>
    /\ UNCHANGED <<clientVars, browserVars, sinceOpen, srvVars, pageVars>>

\* lines 348-358 and 401-403: the request of loadChatHistory returned; the
\* handler of auth_success goes on to loadChatMessages
HistoryLoaded(c, ok) ==
    /\ c \in historyPending
    /\ historyPending' = historyPending \ {c}
    /\ chats' = IF ok THEN ServerChatList ELSE chats
    /\ loadsPending' = IF c # Null THEN loadsPending \cup {c} ELSE loadsPending
    /\ UNCHANGED <<isConnected, uiSessionId, uiChatId, isSending, isTyping,
                   messages, nanoStream, nanoLog, nanoSeq, switchedTo,
                   detailsPending>>
    /\ UNCHANGED <<uiPhase, awaited, uploadActive, uploadChat, fallbackTimer>>
    /\ UNCHANGED <<clientVars, browserVars, sinceOpen, srvVars, pageVars>>

(***************************************************************************)
(* SpecUI: one mounted ChatInterface, its client, the browser and the      *)
(* server: connection life cycle, turns without media, chat switches and   *)
(* the requests they start.  The heartbeat is left out: a ping is answered *)
(* by a pong, which no handler of the client or of ChatInterface acts on.  *)
(* The upload of media and the timeout of lines 490-494 are in SpecNano.   *)
(***************************************************************************)
MessagesRoom == Len(messages) < MaxMessages
NanoRoom(k) == nanoSeq < k
FrameRoom(d, k) ==
    /\ EventOf(d) = "chat_message" => MessagesRoom
    /\ EventOf(d) = "nano_message" => NanoRoom(k)
PendingRoom(d) ==
    EventOf(d) \in {"auth_success", "chat_created", "chat_switched"}
        => Cardinality(detailsPending) + Cardinality(loadsPending)
               + Cardinality(historyPending) < MaxPending

NextUI ==
    \/ \E token \in Tokens : Mount(token)
    \/ Unmount
    \/ \E s \in Sockets : UIOnOpen(s)
    \/ \E s \in Sockets, d \in ServerFrames :
           FrameRoom(d, MaxNanoUI) /\ PendingRoom(d) /\ UIOnMessage(s, d)
    \/ \E s \in Sockets : UIPeerStartsClose(s)
    \/ \E s \in Sockets : UIOnCloseClean(s)
    \/ \E s \in Sockets : UIOnCloseUnclean(s)
    \/ \E t \in BagToSet(timers) : UIReconnectTimer(t)
    \/ UIRoom /\ MessagesRoom /\ HandleSendMessage
    \/ OnStopStreaming
    \/ \E c \in ChatIds : UIRoom /\ HandleSelectChat(c)
    \/ \E c \in ChatIds : DetailsDone(c)
    \/ \E c \in ChatIds, ok \in BOOLEAN : MessagesLoaded(c, ok)
    \/ \E c \in ChatIds \cup {Null}, ok \in BOOLEAN : HistoryLoaded(c, ok)

SpecUI == Init /\ [][NextUI]_vars

(***************************************************************************)
(* SpecNano: the status lines of one ChatInterface on one connection that  *)
(* stays open: many nano_message events, uploads of media and chat         *)
(* changes.  The requests for the stored messages stay in flight.          *)
(***************************************************************************)
NextNano ==
    \/ Mount("tok")
    \/ \E s \in Sockets : UIOnOpen(s)
    \/ FallbackTimer
    \/ \E s \in Sockets, d \in ServerFrames : FrameRoom(d, MaxNano) /\ UIOnMessage(s, d)
    \/ NanoRoom(MaxNano) /\ HandleSendMessageWithMedia
    \/ UIRoom /\ MessagesRoom /\ NanoRoom(MaxNano) /\ UploadDone
    \/ \E c \in ChatIds : UIRoom /\ HandleSelectChat(c)
    \/ \E c \in ChatIds : DetailsDone(c)

SpecNano == Init /\ [][NextNano]_vars

(***************************************************************************)
(* SpecTurn: one ChatInterface on one connection that stays open: turns    *)
(* without media, the events of a turn, chat switches and the requests     *)
(* they start.                                                             *)
(***************************************************************************)
NextTurn ==
    \/ Mount("tok")
    \/ \E s \in Sockets : UIOnOpen(s)
    \/ \E s \in Sockets, d \in ServerFrames :
           FrameRoom(d, MaxNanoUI) /\ PendingRoom(d) /\ UIOnMessage(s, d)
    \/ UIRoom /\ MessagesRoom /\ HandleSendMessage
    \/ OnStopStreaming
    \/ \E c \in ChatIds : UIRoom /\ HandleSelectChat(c)
    \/ \E c \in ChatIds : DetailsDone(c)
    \/ \E c \in ChatIds, ok \in BOOLEAN : MessagesLoaded(c, ok)
    \/ \E c \in ChatIds \cup {Null}, ok \in BOOLEAN : HistoryLoaded(c, ok)

SpecTurn == Init /\ [][NextTurn]_vars

(***************************************************************************)
(* SpecCreate: the same, with the "new chat" action of ChatInterface.      *)
(***************************************************************************)
NextCreate ==
    \/ Mount("tok")
    \/ \E s \in Sockets : UIOnOpen(s)
    \/ \E s \in Sockets, d \in ServerFrames :
           FrameRoom(d, MaxNanoUI) /\ PendingRoom(d) /\ UIOnMessage(s, d)
    \/ UIRoom /\ MessagesRoom /\ HandleSendMessage
    \/ \E c \in ChatIds : UIRoom /\ HandleSelectChat(c)
    \/ \E c \in ChatIds, ok \in BOOLEAN : UIRoom /\ HandleCreateChat(c, ok)
    \/ \E c \in ChatIds : DetailsDone(c)
    \/ \E c \in ChatIds, ok \in BOOLEAN : MessagesLoaded(c, ok)
    \/ \E c \in ChatIds \cup {Null}, ok \in BOOLEAN : HistoryLoaded(c, ok)

SpecCreate == Init /\ [][NextCreate]_vars

(***************************************************************************)
(* SpecMirror: one ChatInterface whose connection may fail, close and be   *)
(* reconnected by the client, with the handshake replies.  Every step that *)
(* can be taken is taken eventually: the browser runs the handler of each  *)
(* event and each timer, and each request returns.                         *)
(***************************************************************************)
AuthFrames == {d \in ServerFrames : d.type \in {"auth_success", "auth_error"}}

NextMirror ==
    \/ Mount("tok")
    \/ \E s \in Sockets : UIOnOpen(s)
    \/ \E s \in Sockets, d \in AuthFrames : PendingRoom(d) /\ UIOnMessage(s, d)
    \/ \E s \in Sockets : UIPeerStartsClose(s)
    \/ \E s \in Sockets : UIOnCloseClean(s)
    \/ \E s \in Sockets : UIOnCloseUnclean(s)
    \/ \E t \in BagToSet(timers) : UIReconnectTimer(t)
    \/ \E c \in ChatIds, ok \in BOOLEAN : MessagesLoaded(c, ok)
    \/ \E c \in ChatIds \cup {Null}, ok \in BOOLEAN : HistoryLoaded(c, ok)

SpecMirror == Init /\ [][NextMirror]_vars /\ WF_vars(NextMirror)

(***************************************************************************)
(* SpecSending: the same with a turn, which the server answers with a      *)
(* chat_message that has text.  A turn is sent only when the message list  *)
(* has room for the message and its reply.                                 *)
(***************************************************************************)
ReplyFrames == AuthFrames \cup {Data("other", "text", Null, Null)}
ReplyRoom == Len(messages) + 1 < MaxMessages

NextSending ==
    \/ Mount("tok")
    \/ \E s \in Sockets : UIOnOpen(s)
    \/ \E s \in Sockets, d \in ReplyFrames : PendingRoom(d) /\ UIOnMessage(s, d)
    \/ \E s \in Sockets : UIPeerStartsClose(s)
    \/ \E s \in Sockets : UIOnCloseClean(s)
    \/ \E s \in Sockets : UIOnCloseUnclean(s)
    \/ \E t \in BagToSet(timers) : UIReconnectTimer(t)
    \/ UIRoom /\ ReplyRoom /\ HandleSendMessage
    \/ \E c \in ChatIds, ok \in BOOLEAN : MessagesLoaded(c, ok)
    \/ \E c \in ChatIds \cup {Null}, ok \in BOOLEAN : HistoryLoaded(c, ok)

SpecSending == Init /\ [][NextSending]_vars /\ WF_vars(NextSending)

(***************************************************************************)
(* SpecHistory: one ChatInterface on one connection that stays open, with  *)
(* several requests in flight at once, which all succeed and return in    *)
(* any order.                                                              *)
(***************************************************************************)
Requests ==
    Cardinality(detailsPending) + Cardinality(loadsPending) + Cardinality(historyPending)
LoadRoom(d) ==
    EventOf(d) \in {"auth_success", "chat_created", "chat_switched"} => Requests < MaxLoads

NextHistory ==
    \/ Mount("tok")
    \/ \E s \in Sockets : UIOnOpen(s)
    \/ \E s \in Sockets, d \in ServerFrames :
           FrameRoom(d, MaxNanoUI) /\ LoadRoom(d) /\ UIOnMessage(s, d)
    \/ UIRoom /\ MessagesRoom /\ HandleSendMessage
    \/ \E c \in ChatIds : UIRoom /\ HandleSelectChat(c)
    \/ \E c \in ChatIds : DetailsDone(c)
    \/ \E c \in ChatIds : MessagesLoaded(c, TRUE)
    \/ \E c \in ChatIds \cup {Null} : HistoryLoaded(c, TRUE)

SpecHistory == Init /\ [][NextHistory]_vars

(***************************************************************************)
(* SpecDelete: one ChatInterface on one connection that stays open, with   *)
(* the chat list of ChatHistory: turns, chat switches to chats of the      *)
(* list, and deletions.                                                    *)
(***************************************************************************)
NextDelete ==
    \/ Mount("tok")
    \/ \E s \in Sockets : UIOnOpen(s)
    \/ \E s \in Sockets, d \in ServerFrames :
           FrameRoom(d, MaxNanoUI) /\ PendingRoom(d) /\ UIOnMessage(s, d)
    \/ UIRoom /\ MessagesRoom /\ HandleSendMessage
    \/ \E c \in ChatIds \ deleted : UIRoom /\ HandleSelectChat(c)
    \/ \E c \in ChatIds : DetailsDone(c)
    \/ \E c \in ChatIds, ok \in BOOLEAN : MessagesLoaded(c, ok)
    \/ \E c \in ChatIds \cup {Null}, ok \in BOOLEAN : HistoryLoaded(c, ok)
    \/ \E c \in ChatIds, ok \in BOOLEAN : DeleteChat(c, ok)

SpecDelete == Init /\ [][NextDelete]_vars

(***************************************************************************)
(* SpecFirstChat: one ChatInterface on one connection that stays open,     *)
(* against a server whose auth_success may carry no chat_id: the timeout   *)
(* of lines 490-494 then requests a chat.                                  *)
(***************************************************************************)
AuthNoChat == {Data("auth_success", "absent", Null, sid) : sid \in SessionIds}

NextFirstChat ==
    \/ Mount("tok")
    \/ \E s \in Sockets : UIOnOpen(s)
    \/ FallbackTimer
    \/ \E s \in Sockets, d \in ServerFrames \cup AuthNoChat :
           FrameRoom(d, MaxNanoUI) /\ PendingRoom(d) /\ UIOnMessage(s, d)
    \/ UIRoom /\ MessagesRoom /\ HandleSendMessage
    \/ \E c \in ChatIds, ok \in BOOLEAN : MessagesLoaded(c, ok)
    \/ \E c \in ChatIds \cup {Null}, ok \in BOOLEAN : HistoryLoaded(c, ok)

SpecFirstChat == Init /\ [][NextFirstChat]_vars

(***************************************************************************)
(* The Agent Router and the Memory Store of the server (spec, 4.2 and 4.3, *)
(* and the AgentMemory of section 3), for the turns of one connection on   *)
(* one chat.                                                               *)
(***************************************************************************)
\* The capabilities the registry declares.
Capable(a, m) ==
    \/ a = "agentA" /\ m \in {"forA", "forBoth"}
    \/ a = "agentB" /\ m \in {"forB", "forBoth"}

\* 4.2, step 2: the first registered agent that is capable, or Null.
Classify(m) ==
    LET able == {i \in DOMAIN Registry : Capable(Registry[i], m)}
    IN  IF able = {} THEN Null
        ELSE Registry[CHOOSE i \in able : \A j \in able : i <= j]

\* an unregistered signature fails the routing
Route_UnknownFails(sig, m) ==
    IF sig \in Agents THEN [agent |-> sig, classified |-> FALSE]
    ELSE IF sig # Null THEN [agent |-> Null, classified |-> FALSE]
    ELSE [agent |-> Classify(m), classified |-> TRUE]

\* 4.2, steps 1 and 2, and the edge case of an unregistered signature.
Route(sig, m) ==
    IF sig \in Agents THEN [agent |-> sig, classified |-> FALSE]
    ELSE [agent |-> Classify(m), classified |-> TRUE]

\* eviction that keeps the oldest entries
Evict_KeepsOldest(q, cap) == IF Len(q) > cap THEN SubSeq(q, 1, cap) ELSE q

\* AgentMemory: the oldest entries are evicted first when the cap is exceeded.
Evict(q, cap) == IF Len(q) > cap THEN SubSeq(q, Len(q) - cap + 1, Len(q)) ELSE q

\* append(chatId, agentName, entry)
AppendEntry(q, entry, cap) == Evict(Append(q, entry), cap)

RouterOnly == UNCHANGED <<clientVars, browserVars, sinceOpen, uiVars, srvChat, srvRead,
                          turnsInFlight, deleted, pageVars>>

\* 4.2, steps 1-3: a turn arrives when the turn before it has ended.  With
\* no agent for the message the turn ends with an error-class message.
RouteTurn(sig, m) ==
    /\ turnPhase \in {"idle", "done", "failed"}
    /\ msgCount < MaxPersisted
    /\ turn' = [signature |-> sig, message |-> m, agent |-> Route(sig, m).agent,
                classified |-> Route(sig, m).classified]
    /\ turnPhase' = IF Route(sig, m).agent = Null THEN "failed" ELSE "running"
    /\ outbox' = IF Route(sig, m).agent = Null THEN <<"error">> ELSE <<>>
    /\ nanosYielded' = 0
    /\ msgAtStart' = msgCount
    /\ UNCHANGED <<memCap, memory, memSeq, msgCount>>
    /\ RouterOnly

\* 4.2, step 4
AgentYieldsNano ==
    /\ turnPhase = "running"
    /\ nanosYielded < MaxTurnNano
    /\ nanosYielded' = nanosYielded + 1
    /\ outbox' = Append(outbox, "nano_message")
    /\ UNCHANGED <<memCap, memory, memSeq, msgCount, turnPhase, turn, msgAtStart>>
    /\ RouterOnly

\* The memory of an agent is created on its first write, with a cap.
MemoryAppend(a, cap) ==
    /\ memSeq[a] < MaxAppends
    /\ IF memCap[a] = 0 THEN memCap' = [memCap EXCEPT ![a] = cap]
                        ELSE cap = memCap[a] /\ UNCHANGED memCap
    /\ memSeq' = [memSeq EXCEPT ![a] = @ + 1]
    /\ memory' = [memory EXCEPT ![a] = AppendEntry(@, memSeq[a] + 1, cap)]

\* 4.2, step 5
AgentCompletes(wantsMemory, cap) ==
    /\ turnPhase = "running"
    /\ msgCount' = msgCount + 1
    /\ IF wantsMemory THEN MemoryAppend(turn.agent, cap)
                      ELSE cap = 1 /\ UNCHANGED <<memCap, memory, memSeq>>
    /\ outbox' = Append(outbox, "chat_message")
    /\ turnPhase' = "done"
    /\ UNCHANGED <<turn, nanosYielded, msgAtStart>>
    /\ RouterOnly

\* the failure handling appends a Message
AgentRaises_Persists ==
    /\ turnPhase = "running"
    /\ outbox' = Append(outbox, "error")
    /\ turnPhase' = "failed"
    /\ msgCount' = msgCount + 1
    /\ UNCHANGED <<memCap, memory, memSeq, turn, nanosYielded, msgAtStart>>
    /\ RouterOnly

\* 4.2, step 6
AgentRaises ==
    /\ turnPhase = "running"
    /\ outbox' = Append(outbox, "error")
    /\ turnPhase' = "failed"
    /\ UNCHANGED <<memCap, memory, memSeq, msgCount, turn, nanosYielded, msgAtStart>>
    /\ RouterOnly

NextRouter ==
    \/ \E sig \in TurnSignatures, m \in MessageKinds : RouteTurn(sig, m)
    \/ AgentYieldsNano
    \/ \E wantsMemory \in BOOLEAN, cap \in 1..MaxCap : AgentCompletes(wantsMemory, cap)
    \/ AgentRaises

SpecRouter == Init /\ [][NextRouter]_vars

(***************************************************************************)
(* The handler registry of MultimodalAgentClient: on(), lines 373-378,     *)
(* onNanoMessage(), lines 405-410, emit(), lines 390-400, and              *)
(* handleNanoMessage, lines 261-273.  A handler is the list it is in, its  *)
(* place in the list and whether it throws.                                *)
(***************************************************************************)
Handler(list, n, throws) == [list |-> list, n |-> n, throws |-> throws]
Ids(q) == [i \in DOMAIN q |-> <<q[i].list, q[i].n>>]

HandlersOnly == UNCHANGED <<clientVars, browserVars, sinceOpen, uiVars, srvVars, authVars>>

\* on(event, handler), lines 373-378
On(ev, throws) ==
    /\ Len(eventHandlers[ev]) < MaxHandlers
    /\ eventHandlers' =
           [eventHandlers EXCEPT ![ev] = Append(@, Handler(ev, Len(@) + 1, throws))]
    /\ UNCHANGED <<nanoMessageHandlers, invoked, dispatched>>
    /\ HandlersOnly

\* onNanoMessage(agent, handler), lines 405-410
ClientOnNanoMessage(key, throws) ==
    /\ Len(nanoMessageHandlers[key]) < MaxHandlers
    /\ nanoMessageHandlers' =
           [nanoMessageHandlers EXCEPT ![key] = Append(@, Handler(key, Len(@) + 1, throws))]
    /\ UNCHANGED <<eventHandlers, invoked, dispatched>>
    /\ HandlersOnly

\* emit(event, data), lines 390-400: every handler runs inside its own
\* try/catch
EmitInvokes(ev) == Ids(eventHandlers[ev])

\* forEach(handler => handler(data)), lines 266 and 270: the first handler
\* that throws ends the loop and the method
Throwers(q) == {i \in DOMAIN q : q[i].throws}
FirstThrower(q) == CHOOSE i \in Throwers(q) : \A j \in Throwers(q) : i <= j
ForEachInvokes(q) ==
    IF Throwers(q) = {} THEN Ids(q) ELSE Ids(SubSeq(q, 1, FirstThrower(q)))

\* handleNanoMessage, lines 261-273, for a frame of the agent FrameAgent: the
\* handlers of the agent, then those of '*', then emit; an exception leaves
\* the method
HandleNanoMessageInvokes ==
    IF Throwers(nanoMessageHandlers[FrameAgent]) # {}
    THEN ForEachInvokes(nanoMessageHandlers[FrameAgent])
    ELSE IF Throwers(nanoMessageHandlers["*"]) # {}
    THEN Ids(nanoMessageHandlers[FrameAgent]) \o ForEachInvokes(nanoMessageHandlers["*"])
    ELSE Ids(nanoMessageHandlers[FrameAgent]) \o Ids(nanoMessageHandlers["*"])
             \o EmitInvokes("nano_message")

\* ws.onmessage, lines 63-70, for a frame of the event ev: the exception that
\* leaves handleMessage is caught and logged
Dispatch(ev) ==
    /\ dispatched' = ev
    /\ invoked' = IF ev = "nano_message" THEN HandleNanoMessageInvokes
                  ELSE EmitInvokes(ev)
    /\ UNCHANGED <<eventHandlers, nanoMessageHandlers>>
    /\ HandlersOnly

NextHandlers ==
    \/ \E ev \in HandlerEvents, throws \in BOOLEAN : On(ev, throws)
    \/ \E key \in NanoKeys, throws \in BOOLEAN : ClientOnNanoMessage(key, throws)
    \/ \E ev \in HandlerEvents : Dispatch(ev)

SpecHandlers == Init /\ [][NextHandlers]_vars

(***************************************************************************)
(* AuthService, src/frontend/lib/auth.js, and the sign-out button of       *)
(* ChatInterface, ChatInput.js lines 734-739.                              *)
(***************************************************************************)
\* ChatInterface is mounted
Mounted == uiPhase \in {"awaiting", "ready", "failed"}

AuthOnly == UNCHANGED <<clientVars, browserVars, sinceOpen, uiVars, srvVars, handlerVars>>

\* isAuthenticated(), lines 41-43
IsAuthenticatedNow == authUser # Null /\ authToken # Null

\* authenticateWithGoogle, lines 45-76, when the request succeeds:
\* saveToStorage, lines 23-30.  The sign-in control is rendered while
\* isAuthenticated() is false, ChatInput.js line 698.
SignIn ==
    /\ ~reloading
    /\ ~IsAuthenticatedNow
    /\ storedUser' = "user"
    /\ storedToken' = "tok"
    /\ authUser' = "user"
    /\ authToken' = "tok"
    /\ logoutDone' = FALSE
    /\ signedOut' = FALSE
    /\ UNCHANGED <<logoutPending, reloading>>
    /\ AuthOnly

\* logout(), lines 78-80: up to the await of the request.  The model follows
\* one call at a time.
Logout ==
    /\ ~reloading
    /\ ~logoutPending
    /\ logoutPending' = TRUE
    /\ logoutDone' = FALSE
    /\ UNCHANGED <<authUser, authToken, storedUser, storedToken, reloading, signedOut>>
    /\ AuthOnly

\* clearStorage(), lines 32-39
ClearStorage ==
    /\ authUser' = Null
    /\ authToken' = Null
    /\ storedUser' = Null
    /\ storedToken' = Null

\* logout(), lines 85-90: the request succeeded (ok) or failed; the finally
\* block runs in both cases
LogoutSettles(ok) ==
    /\ logoutPending
    /\ logoutPending' = FALSE
    /\ ClearStorage
    /\ logoutDone' = TRUE
    /\ UNCHANGED <<reloading, signedOut>>
    /\ AuthOnly

\* the sign-out button, lines 734-739, rendered while isAuthenticated() is
\* true: logout() is called and not awaited, then disconnect() of the client,
\* then window.location.reload()
SignOut ==
    /\ Mounted
    /\ ~reloading
    /\ ~logoutPending
    /\ IsAuthenticatedNow
    /\ logoutPending' = TRUE
    /\ logoutDone' = FALSE
    /\ ClientDisconnect
    /\ reloading' = TRUE
    /\ srvChat' = Forget(srvChat, readyState', Null)
    /\ srvRead' = Forget(srvRead, readyState', 0)
    /\ turnsInFlight' = Forget(turnsInFlight, readyState', 0)
    /\ UNCHANGED <<authUser, authToken, storedUser, storedToken, signedOut>>
    /\ UNCHANGED <<uiVars, deleted, routerVars, handlerVars>>

\* The page is unloaded and loaded again.  What the old page had pending is
\* dropped with its objects: the continuation of logout(), the timers, the
\* sockets, which the browser closes without an event for the page, the
\* client and the state of ChatInterface.  The constructor of the new
\* AuthService runs loadFromStorage, lines 11-21, which takes user and token
\* only when both are stored.
PageReloads ==
    /\ reloading
    /\ reloading' = FALSE
    /\ logoutPending' = FALSE
    /\ logoutDone' = FALSE
    /\ signedOut' = TRUE
    /\ authUser' = IF storedUser # Null /\ storedToken # Null THEN storedUser ELSE Null
    /\ authToken' = IF storedUser # Null /\ storedToken # Null THEN storedToken ELSE Null
    /\ UNCHANGED <<storedUser, storedToken>>
    /\ ws' = NoSock
    /\ sessionId' = Null
    /\ chatId' = Null
    /\ isAuthenticated' = FALSE
    /\ isConnecting' = FALSE
    /\ reconnectAttempts' = 0
    /\ heartbeatInterval' = FALSE
    /\ tokenSent' = FALSE
    /\ nextSignature' = Null
    /\ readyState' = [s \in Sockets |-> "NONE"]
    /\ opened' = [s \in Sockets |-> FALSE]
    /\ sockToken' = [s \in Sockets |-> Null]
    /\ wire' = [s \in Sockets |-> <<>>]
    /\ authRecv' = [s \in Sockets |-> FALSE]
    /\ authFailed' = [s \in Sockets |-> FALSE]
    /\ timers' = EmptyBag
    /\ liveIntervals' = 0
    /\ sinceOpen' = 0
    /\ uiPhase' = "unmounted"
    /\ awaited' = NoSock
    /\ isConnected' = FALSE
    /\ uiSessionId' = Null
    /\ uiChatId' = Null
    /\ isSending' = FALSE
    /\ isTyping' = FALSE
    /\ messages' = <<>>
    /\ NanoClear
    /\ switchedTo' = Null
    /\ detailsPending' = {}
    /\ loadsPending' = {}
    /\ historyPending' = {}
    /\ chats' = [c \in ChatIds |-> "absent"]
    /\ uploadActive' = FALSE
    /\ uploadChat' = Null
    /\ fallbackTimer' = FALSE
    /\ srvChat' = [s \in Sockets |-> Null]
    /\ srvRead' = [s \in Sockets |-> 0]
    /\ turnsInFlight' = [s \in Sockets |-> 0]
    /\ UNCHANGED <<deleted, routerVars, handlerVars>>

(***************************************************************************)
(* SpecSignOut: the page with its AuthService, and ChatInterface mounted   *)
(* with the token the AuthService holds, line 343.                         *)
(***************************************************************************)
NextSignOut ==
    \/ SignIn
    \/ Logout
    \/ \E ok \in BOOLEAN : LogoutSettles(ok)
    \/ SignOut
    \/ PageReloads
    \/ Mount(authToken)
    \/ \E s \in Sockets : UIOnOpen(s)
    \/ \E s \in Sockets, d \in AuthFrames : PendingRoom(d) /\ UIOnMessage(s, d)
    \/ \E s \in Sockets : UIPeerStartsClose(s)
    \/ \E s \in Sockets : UIOnCloseClean(s)
    \/ \E s \in Sockets : UIOnCloseUnclean(s)
    \/ \E t \in BagToSet(timers) : UIReconnectTimer(t)

SpecSignOut == Init /\ [][NextSignOut]_vars

(***************************************************************************)
(* Properties                                                              *)
(***************************************************************************)
TokenCount(s) == Cardinality({i \in DOMAIN wire[s] : wire[s][i].kind = "token"})
Last(q) == q[Len(q)]

\* C1: on every open socket whose connect() was given a token, the {token}
\* frame is the first frame sent and is sent exactly once.
C1_TokenOnceAndFirst ==
    \A s \in Sockets :
        (readyState[s] = "OPEN" /\ sockToken[s] # Null)
            => /\ Len(wire[s]) >= 1
               /\ wire[s][1].kind = "token"
               /\ TokenCount(s) = 1

\* C2: a frame other than the token is on a socket only if an auth_success
\* has been received on that same socket.
C2_NoFrameBeforeAuth ==
    \A s \in Sockets :
        (\E i \in DOMAIN wire[s] : wire[s][i].kind # "token") => authRecv[s]

\* C5: chatId changes only when an auth_success, session_started, chat_created
\* or chat_switched is received (to that event's chat_id) and on disconnect()
\* (to null).
C5_Step ==
    chatId' # chatId =>
        \/ \E s \in Sockets, d \in InboundFrames :
              /\ OnMessage(s, d)
              /\ EventOf(d) \in ChatEventTypes
              /\ chatId' = d.chat_id
        \/ Disconnect /\ chatId' = Null
C5_ChatIdFollowsServer == [][C5_Step]_vars

C5_Witness ==
    /\ chatId = "c2"
    /\ IsOpen(ws)
    /\ \E i \in DOMAIN wire[ws] : wire[ws][i] = SwitchFrame("c1")

\* C8: a step that sends a turn frame attaches the pending signature to it and
\* clears it; a step that sends no turn frame leaves the pending signature as
\* it is, unless the caller assigns it.
TurnSent ==
    /\ ws # NoSock
    /\ Len(wire'[ws]) = Len(wire[ws]) + 1
    /\ Last(wire'[ws]).kind = "turn"
C8_Step ==
    /\ TurnSent => /\ Last(wire'[ws]).signature = nextSignature
                   /\ nextSignature' = Null
    /\ ~TurnSent => \/ nextSignature' = nextSignature
                    \/ \E sig \in Signatures \cup {Null} : SetSignature(sig)
C8_SignatureForOneTurn == [][C8_Step]_vars

C8_Witness ==
    /\ IsOpen(ws)
    /\ nextSignature = Null
    /\ \E i \in DOMAIN wire[ws] : wire[ws][i] = TurnFrame("c1", "agentA")

\* C9 as stated: without a successful open, at most maxReconnectAttempts
\* reconnects are scheduled.
C9_AtMostFiveSinceOpen == sinceOpen <= maxReconnectAttempts

\* C9 as amended: reconnectAttempts stays within 0..5; it is reset by every
\* successful open; it counts the reconnects scheduled since the last open or
\* disconnect(); a close that is not clean schedules exactly one reconnect
\* while it is below 5, and a clean close schedules none.
C9_Step ==
    /\ (\E s \in Sockets : OnOpen(s)) => reconnectAttempts' = 0
    /\ (\E s \in Sockets : OnCloseClean(s)) =>
           timers' = timers /\ reconnectAttempts' = reconnectAttempts
    /\ (\E s \in Sockets : OnCloseUnclean(s)) =>
           IF reconnectAttempts < maxReconnectAttempts
           THEN /\ BagCardinality(timers') = BagCardinality(timers) + 1
                /\ reconnectAttempts' = reconnectAttempts + 1
           ELSE timers' = timers /\ reconnectAttempts' = reconnectAttempts
    /\ BagCardinality(timers') > BagCardinality(timers) =>
           reconnectAttempts' = reconnectAttempts + 1
    /\ reconnectAttempts' # reconnectAttempts =>
           \/ reconnectAttempts' = reconnectAttempts + 1
           \/ reconnectAttempts' = 0 /\ ((\E s \in Sockets : OnOpen(s)) \/ Disconnect)
C9_ReconnectBounded ==
    /\ [](reconnectAttempts \in 0..maxReconnectAttempts)
    /\ [][C9_Step]_vars

\* the client has given up: five attempts made, nothing pending, no socket left
C9_Witness ==
    /\ reconnectAttempts = maxReconnectAttempts
    /\ timers = EmptyBag
    /\ FreeSlots = Sockets
    /\ sinceOpen = maxReconnectAttempts

\* C10: the k-th consecutive reconnect is scheduled after 1000, 2000, 4000,
\* 8000, 16000 ms for k = 1..5, whatever the rest of the client's state.
BackoffTable == <<1000, 2000, 4000, 8000, 16000>>
C10_DelayByAttempt ==
    \A t \in BagToSet(timers) :
        /\ t.attempt \in 1..5
        /\ t.delay = BackoffTable[t.attempt]

C10_Witness ==
    \E t \in BagToSet(timers) : t.attempt = 5 /\ t.delay = 16000

\* C3: on no socket are two turn frames of ChatInterface in flight: after a
\* turn frame is sent, no further one is sent on that socket before the frame
\* that ends the first turn has arrived.
C3_OneTurnInFlight == \A s \in Sockets : turnsInFlight[s] <= 1

\* C4: once ChatInterface has handled the chat_switched or chat_created event
\* for a chat, nanoStream holds no nano_message of another chat.
C4_NoOldChatNano ==
    switchedTo # Null =>
        \A i \in DOMAIN nanoStream :
            nanoStream[i].src = "server" => nanoStream[i].chat = switchedTo

\* C6: nanoStream has at most 12 entries and is, in arrival order, the most
\* recent min(n, 12) of the n entries appended since it was last cleared.
C6_LastTwelveInOrder ==
    /\ Len(nanoStream) <= NanoCap
    /\ Len(nanoStream) = Min(Len(nanoLog), NanoCap)
    /\ \A i \in DOMAIN nanoStream :
           nanoStream[i] = nanoLog[Len(nanoLog) - Len(nanoStream) + i]
    /\ \A i, j \in DOMAIN nanoStream : i < j => nanoStream[i].id < nanoStream[j].id

\* the stream was cleared, then more than 12 entries were appended, so the
\* oldest of them is evicted
C6_Witness ==
    /\ Len(nanoLog) > NanoCap
    /\ Len(nanoStream) = NanoCap
    /\ nanoSeq > Len(nanoLog)
    /\ nanoStream[1].id = nanoLog[2].id
    /\ \E i \in DOMAIN nanoStream : nanoStream[i].src = "client"
    /\ \E i \in DOMAIN nanoStream : nanoStream[i].src = "server"

\* C7: a received frame dispatched as chat_message appends exactly one
\* assistant entry to the message list and ends the sending state; a
\* nano_message frame leaves the message list and the sending state alone.
TurnEvents == {d \in ServerFrames : EventOf(d) \in {"chat_message", "nano_message"}}
C7_Step ==
    \A s \in Sockets, d \in TurnEvents :
        UIOnMessage(s, d) =>
            /\ EventOf(d) = "chat_message" =>
                   /\ Len(messages') = Len(messages) + 1
                   /\ SubSeq(messages', 1, Len(messages)) = messages
                   /\ Last(messages').role = "assistant"
                   /\ ~isTyping' /\ ~isSending'
            /\ EventOf(d) = "nano_message" =>
                   /\ messages' = messages
                   /\ isTyping' = isTyping
                   /\ isSending' = isSending
C7_OneAssistantMessagePerTurn == [][C7_Step]_vars

\* a turn has been answered after a nano_message: the reply is shown and the
\* input is free again
C7_Witness ==
    /\ uiPhase = "ready"
    /\ Len(messages) = 2
    /\ messages[1].role = "user" /\ messages[2].role = "assistant"
    /\ ~isSending /\ ~isTyping
    /\ Len(nanoStream) = 1
    /\ IsOpen(ws) /\ turnsInFlight[ws] = 0

ClosesIn(s) == readyState[s] # "CLOSED" /\ readyState'[s] = "CLOSED"
C12_Step ==
    \A s \in Sockets :
        /\ (~authFailed[s] /\ authFailed'[s]) => ~isAuthenticated'
        /\ authFailed[s] =>
              /\ Len(wire'[s]) <= Len(wire[s])
              /\ ClosesIn(s) => BagCardinality(timers') <= BagCardinality(timers)
C12_AuthErrorFatal == [][C12_Step]_vars

\* C13: a frame that is not valid JSON, or that has an unrecognised type and
\* no text with content, leaves every socket as it is, leaves ws,
\* isAuthenticated, sessionId and chatId unchanged, and no handler of
\* ChatInterface runs.
Malformed(d) == d.type = "notjson" \/ (d.type \notin KnownTypes /\ d.text # "text")
MalformedFrames == {d \in ServerFrames : Malformed(d)}
C13_Step ==
    \A s \in Sockets, d \in MalformedFrames :
        UIOnMessage(s, d) =>
            /\ UNCHANGED <<readyState, ws, isAuthenticated, sessionId, chatId>>
            /\ UNCHANGED uiState
C13_MalformedNotFatal == [][C13_Step]_vars

\* the server ended a turn with a frame of no type and no text: the message
\* list holds the user's message only and the socket is still open
C13_Witness ==
    /\ uiPhase = "ready"
    /\ IsOpen(ws)
    /\ isAuthenticated
    /\ Len(wire[ws]) = 2
    /\ Last(wire[ws]).kind = "turn"
    /\ srvRead[ws] = 2
    /\ messages = <<Message("user", Null)>>
    /\ isSending

\* C14: no turn frame is sent that carries the id of a chat deleted before.
C14_Step == TurnSent => Last(wire'[ws]).chat_id \notin deleted
C14_NoTurnToDeletedChat == [][C14_Step]_vars

\* C15: every turn frame carries a chat_id that is not null.
C15_TurnHasChat ==
    \A s \in Sockets : \A i \in DOMAIN wire[s] :
        wire[s][i].kind = "turn" => wire[s][i].chat_id # Null

\* C16: handling a title_updated event changes nothing but the title of the
\* entry of the chat list whose chat_id matches, and adds no entry; the
\* active chat id, the message list, nanoStream, isSending and isTyping are
\* unchanged.
TitleFrames == {d \in ServerFrames : EventOf(d) = "title_updated"}
C16_Step ==
    \A s \in Sockets, d \in TitleFrames :
        UIOnMessage(s, d) =>
            /\ \A c \in ChatIds \ {d.chat_id} : chats'[c] = chats[c]
            /\ chats'[d.chat_id] \in {chats[d.chat_id], "pushed"}
            /\ chats[d.chat_id] = "absent" => chats'[d.chat_id] = "absent"
            /\ UNCHANGED <<chatId, uiChatId, messages, nanoStream, isSending,
                           isTyping>>
C16_TitleOutOfBand == [][C16_Step]_vars

\* the title of the active chat was pushed while its turn is in flight
C16_Witness ==
    /\ uiPhase = "ready"
    /\ IsOpen(ws)
    /\ uiChatId # Null
    /\ chats[uiChatId] = "pushed"
    /\ isSending
    /\ turnsInFlight[ws] = 1
    /\ messages = <<Message("user", Null)>>


\* C17: at most one heartbeat timer is live; a timer is started only by the
\* step that receives auth_success; the close event of a socket and
\* disconnect() leave no timer live; receiving a pong changes no state of the
\* client and is dispatched as no event.
AuthSuccessFrames == {d \in InboundFrames : EventOf(d) = "auth_success"}
TimerStarted == liveIntervals' > liveIntervals \/ (~heartbeatInterval /\ heartbeatInterval')
C17_Step ==
    /\ liveIntervals' <= 1
    /\ TimerStarted => \E s \in Sockets, d \in AuthSuccessFrames : OnMessage(s, d)
    /\ (Disconnect \/ \E s \in Sockets : ClosesIn(s)) =>
            (liveIntervals' = 0 /\ ~heartbeatInterval')
    /\ \A s \in Sockets, d \in PongFrames :
            OnMessage(s, d) => /\ EventOf(d) = "none"
                               /\ UNCHANGED <<clientVars, readyState, wire, timers,
                                              liveIntervals>>
C17_HeartbeatLifecycle == [][C17_Step]_vars

\* the timer started by auth_success has sent a ping on the open socket
C17_Witness ==
    /\ liveIntervals = 1
    /\ heartbeatInterval
    /\ isAuthenticated
    /\ IsOpen(ws)
    /\ Len(wire[ws]) > 1
    /\ Last(wire[ws]) = PingFrame


\* C18: an append to an AgentMemory leaves a suffix of the entries before it
\* followed by the new entry: entries are removed only from the head, none
\* that is more recent than one that is kept, the rest keeps its order, and
\* nothing is removed unless the cap is exceeded; this for every cap >= 1.
\* No other step changes the entries.
IsSuffix(new, all) ==
    \E k \in 0..Len(all) : new = SubSeq(all, k + 1, Len(all))
C18_Step ==
    \A a \in Agents :
        IF memSeq'[a] # memSeq[a]
        THEN LET all == Append(memory[a], memSeq'[a])
             IN  /\ memCap'[a] >= 1
                 /\ IsSuffix(memory'[a], all)
                 /\ memory'[a] # <<>>
                 /\ Last(memory'[a]) = memSeq'[a]
                 /\ Len(memory'[a]) <= memCap'[a]
                 /\ Len(all) <= memCap'[a] => memory'[a] = all
        ELSE memory'[a] = memory[a]
C18_EvictionIsFIFO == [][C18_Step]_vars

\* a memory of cap 2 has evicted its oldest entry, and only that one
C18_Witness ==
    \E a \in Agents :
        /\ memCap[a] = 2
        /\ memSeq[a] = 3
        /\ memory[a] = <<2, 3>>


\* C19: when the agent has raised in a turn, the events emitted to the client
\* in that turn are the NanoEvents the agent yielded before, in order, and
\* then exactly one error-class message, and the number of persisted
\* Messages is what it was when the turn began.
NanoEvents(n) == [i \in 1..n |-> "nano_message"]
AgentRaised == turnPhase = "failed" /\ turn.agent # Null
C19_AgentErrorAbortsTurn ==
    AgentRaised => /\ outbox = Append(NanoEvents(nanosYielded), "error")
                   /\ msgCount = msgAtStart

\* the agent raised after a NanoEvent, in a chat that holds a Message
C19_Witness ==
    /\ AgentRaised
    /\ nanosYielded >= 1
    /\ msgCount >= 1

\* C20: a turn whose signature names a registered agent goes to that agent
\* without classification; a turn whose signature names no registered agent
\* is routed as the same message without a signature is, by classification,
\* and its routing fails only if that of the message without signature does.
RoutedAs(sig, m) ==
    /\ turn.agent = Route(sig, m).agent
    /\ turn.classified = Route(sig, m).classified
C20_SignatureRouting ==
    turnPhase # "idle" =>
        IF turn.signature \in Agents
        THEN /\ turn.agent = turn.signature
             /\ ~turn.classified
        ELSE /\ RoutedAs(Null, turn.message)
             /\ turn.classified
             /\ turn.agent = Classify(turn.message)

\* a turn signed with an unregistered name runs in the agent that
\* classification picks among two capable ones
C20_Witness ==
    /\ turnPhase = "running"
    /\ turn.signature = "agentX"
    /\ turn.message = "forBoth"
    /\ turn.agent = "agentA"
    /\ turn.classified


\* C21: whenever the socket the client holds is open and has received
\* auth_success, with no auth_error and no close of its own since,
\* isAuthenticated is true: no event of another socket has cleared it.
C21_CurrentSocketUndisturbed ==
    (ws # NoSock /\ readyState[ws] = "OPEN" /\ authRecv[ws] /\ ~authFailed[ws])
        => isAuthenticated


\* C22: the client holds no socket exactly from a disconnect() until the next
\* connect(), and before the first connect(); in that time only a connect()
\* of the caller creates a socket, never a reconnect timer.
FiredTimer == BagCardinality(timers') < BagCardinality(timers)
C22_Step == (ws = NoSock /\ ws' # NoSock) => ~FiredTimer
C22_DisconnectIsFinal == [][C22_Step]_vars


\* C23: at most one socket created by the client is CONNECTING or OPEN.
LiveSockets == {s \in Sockets : readyState[s] \in {"CONNECTING", "OPEN"}}
C23_NoDoubleConnection == Cardinality(LiveSockets) <= 1


\* C24: a turn frame carries the chat id the client holds when it is sent,
\* which is the one the server confirmed last.
C24_Step == TurnSent => Last(wire'[ws]).chat_id = chatId
C24_TurnCarriesConfirmedChat == [][C24_Step]_vars


\* C25: once no request is pending, a message list that shows a loaded
\* history shows the history of the active chat.
ShowsHistoryOf(c) == messages # <<>> /\ messages[1] = Message("history", c)
C25_HistoryOfActiveChat ==
    (Requests = 0 /\ \E c \in ChatIds : ShowsHistoryOf(c)) => ShowsHistoryOf(uiChatId)


\* C26: whenever the client is authenticated on its open socket while
\* ChatInterface is mounted, ChatInterface eventually has isConnected = true
\* and a session id.
ClientAuthenticated == Mounted /\ isAuthenticated /\ IsOpen(ws)
UIConnected == isConnected /\ uiSessionId # Null
C26_UIMirrorsClient == ClientAuthenticated ~> UIConnected


\* C27: whenever ChatInterface is in the sending state, it eventually has
\* isSending and isTyping false.
C27_SendingEnds == isSending ~> (~isSending /\ ~isTyping)


\* C28: for a frame, the handlers registered with on() for its event have
\* been invoked once each, in registration order, whichever handlers throw,
\* those registered with onNanoMessage included; and the connection state
\* of the client is what it was.
OnHandlersInvoked == SelectSeq(invoked, LAMBDA h : h[1] = dispatched)
C28_Step ==
    \A ev \in HandlerEvents :
        Dispatch(ev) => /\ OnHandlersInvoked' = Ids(eventHandlers[ev])
                        /\ UNCHANGED <<clientVars, readyState>>
C28_HandlerIsolation == [][C28_Step]_vars

\* C29: after logout() has completed, user and token are null in memory and
\* absent from storage and isAuthenticated() is false; and the page
\* reloaded by the sign-out action finds no stored token.
C29_SignOutClears ==
    /\ logoutDone => /\ authUser = Null /\ authToken = Null
                     /\ storedUser = Null /\ storedToken = Null
                     /\ ~IsAuthenticatedNow
    /\ signedOut => storedToken = Null

=============================================================================
